---- MODULE Spec2Model ----
(***************************************************************************)
(* A model of aeon_fix.py: the safety classifier, the command executor     *)
(* (run_command) and the interactive orchestration loop                    *)
(* (handle_llm_response).                                                  *)
(*                                                                         *)
(* Text is modelled as a sequence of one-character strings, so that        *)
(* lower(), split(), strip(), substring tests, shlex and the regular       *)
(* expressions of the extractor are computed on characters as the Python   *)
(* code computes them.                                                     *)
(***************************************************************************)
EXTENDS Integers, Sequences, FiniteSets, TLC

(***************************************************************************)
(* Characters and the str methods used by the code                         *)
(***************************************************************************)
UpperChars ==
    <<"A","B","C","D","E","F","G","H","I","J","K","L","M","N","O","P","Q","R","S","T","U","V","W","X","Y","Z">>

LowerChars ==
    <<"a","b","c","d","e","f","g","h","i","j","k","l","m","n","o","p","q","r","s","t","u","v","w","x","y","z">>

DigitChars ==
    <<"0","1","2","3","4","5","6","7","8","9">>

Range(f) == { f[i] : i \in DOMAIN f }

\* str.isspace() for the characters that occur in the model's texts
IsSpace(c) == c \in {" ", "\t", "\n", "\r"}

\* str.lower() of one character
LowerChar(c) ==
    IF \E i \in DOMAIN UpperChars : UpperChars[i] = c
    THEN LowerChars[CHOOSE i \in DOMAIN UpperChars : UpperChars[i] = c]
    ELSE c

\* str.lower()
Lower(s) == [i \in 1..Len(s) |-> LowerChar(s[i])]

\* the Python test  frag in s  on strings
Contains(s, frag) ==
    \E i \in 0..(Len(s) - Len(frag)) : SubSeq(s, i + 1, i + Len(frag)) = frag

\* str.startswith
StartsWith(s, p) == Len(p) <= Len(s) /\ SubSeq(s, 1, Len(p)) = p

\* str.endswith
EndsWith(s, p) == Len(p) <= Len(s) /\ SubSeq(s, Len(s) - Len(p) + 1, Len(s)) = p

\* str.strip()
RECURSIVE LStrip(_)
LStrip(s) == IF s # <<>> /\ IsSpace(Head(s)) THEN LStrip(Tail(s)) ELSE s

RECURSIVE RStrip(_)
RStrip(s) ==
    IF s # <<>> /\ IsSpace(s[Len(s)]) THEN RStrip(SubSeq(s, 1, Len(s) - 1)) ELSE s

Strip(s) == RStrip(LStrip(s))

\* str.split() with no argument: split on runs of whitespace, no empty words
RECURSIVE SplitFrom(_, _, _)
SplitFrom(s, cur, acc) ==
    IF s = <<>>
    THEN IF cur = <<>> THEN acc ELSE Append(acc, cur)
    ELSE IF IsSpace(Head(s))
         THEN SplitFrom(Tail(s), <<>>, IF cur = <<>> THEN acc ELSE Append(acc, cur))
         ELSE SplitFrom(Tail(s), Append(cur, Head(s)), acc)

Split(s) == SplitFrom(s, <<>>, <<>>)

\* " ".join(words)
RECURSIVE Join(_)
Join(words) ==
    IF words = <<>> THEN <<>>
    ELSE IF Len(words) = 1 THEN words[1]
    ELSE words[1] \o <<" ">> \o Join(Tail(words))

(***************************************************************************)
(* shlex                                                                   *)
(***************************************************************************)
\* the characters shlex.quote leaves alone: [a-zA-Z0-9_@%+=:,./-]
ShlexSafeChars ==
    Range(UpperChars) \cup Range(LowerChars) \cup Range(DigitChars)
        \cup {"_", "@", "%", "+", "=", ":", ",", ".", "/", "-"}

\* s.replace("'", "'\"'\"'")
RECURSIVE EscapeSingleQuotes(_)
EscapeSingleQuotes(s) ==
    IF s = <<>> THEN <<>>
    ELSE IF Head(s) = "'"
         THEN <<"'", "\"", "'", "\"", "'">> \o EscapeSingleQuotes(Tail(s))
         ELSE <<Head(s)>> \o EscapeSingleQuotes(Tail(s))

\* shlex.quote
ShlexQuote(s) ==
    IF s = <<>> THEN <<"'", "'">>
    ELSE IF \A i \in 1..Len(s) : s[i] \in ShlexSafeChars THEN s
    ELSE <<"'">> \o EscapeSingleQuotes(s) \o <<"'">>

\* shlex.split (posix mode, whitespace_split, no comments): a scan over the
\* characters; q is the open quote ("" when none), cur the token being
\* built, inTok whether a token has been started.  Unbalanced quotes and a
\* trailing backslash raise ValueError (ok = FALSE).
RECURSIVE ShlexScan(_, _, _, _, _, _)
ShlexScan(s, i, cur, inTok, q, toks) ==
    IF i > Len(s)
    THEN IF q # "" THEN [ok |-> FALSE, toks |-> <<>>]
         ELSE [ok |-> TRUE, toks |-> IF inTok THEN Append(toks, cur) ELSE toks]
    ELSE LET c == s[i] IN
         IF q = ""
         THEN IF IsSpace(c)
              THEN ShlexScan(s, i + 1, <<>>, FALSE, "",
                             IF inTok THEN Append(toks, cur) ELSE toks)
              ELSE IF c = "\\"
              THEN IF i = Len(s) THEN [ok |-> FALSE, toks |-> <<>>]
                   ELSE ShlexScan(s, i + 2, Append(cur, s[i + 1]), TRUE, "", toks)
              ELSE IF c \in {"'", "\""}
              THEN ShlexScan(s, i + 1, cur, TRUE, c, toks)
              ELSE ShlexScan(s, i + 1, Append(cur, c), TRUE, "", toks)
         ELSE IF c = q
              THEN ShlexScan(s, i + 1, cur, TRUE, "", toks)
              ELSE IF q = "\"" /\ c = "\\"
              THEN IF i = Len(s) THEN [ok |-> FALSE, toks |-> <<>>]
                   ELSE IF s[i + 1] \in {"\"", "\\"}
                        THEN ShlexScan(s, i + 2, Append(cur, s[i + 1]), TRUE, q, toks)
                        ELSE ShlexScan(s, i + 2, cur \o <<c, s[i + 1]>>, TRUE, q, toks)
              ELSE ShlexScan(s, i + 1, Append(cur, c), TRUE, q, toks)

ShlexSplit(s) == ShlexScan(s, 1, <<>>, FALSE, "", <<>>)

(***************************************************************************)
(* CONFIG                                                                  *)
(***************************************************************************)
\* CONFIG["dangerous_commands"]
dangerous_commands ==
    { <<"r","m"," ","-","r","f">>,
      <<"d","e","l","t","r","e","e">>,
      <<"f","o","r","m","a","t">>,
      <<"d","d"," ","i","f","=">>,
      <<"m","k","f","s">>,
      <<"d","e","l"," ","/">>,
      <<"r","d"," ","/","s">>,
      <<"r","m","d","i","r"," ","/","s">>,
      <<":","(",")","{",":","|",":","&","}",";",":">> }

\* CONFIG["safe_diagnostic_commands"]
safe_diagnostic_commands ==
    { <<"w","m","i","c">>,
      <<"s","y","s","t","e","m","i","n","f","o">>,
      <<"i","p","c","o","n","f","i","g">>,
      <<"n","e","t","s","t","a","t">>,
      <<"t","a","s","k","l","i","s","t">>,
      <<"s","f","c">>,
      <<"d","i","s","m">>,
      <<"c","h","k","d","s","k">>,
      <<"d","i","r">>,
      <<"p","o","w","e","r","c","f","g">>,
      <<"m","s","i","n","f","o","3","2">>,
      <<"d","r","i","v","e","r","q","u","e","r","y">>,
      <<"w","h","e","r","e">>,
      <<"r","e","g","s","v","r","3","2">>,
      <<"m","d","s","c","h","e","d",".","e","x","e">> }

(***************************************************************************)
(* SafetyClassifier: is_dangerous_command                                  *)
(***************************************************************************)
T_chkdsk == <<"c","h","k","d","s","k">>

\* The verdict of is_dangerous_command with the return statement that gave
\* it (the denylist's at line 843, the allowlist's at 852 and 854, the
\* default at 860), or the IndexError that cmd_lower.split()[0] raises on a
\* text without any word.
ClassifierReturn(value, step) == [raised |-> FALSE, value |-> value, step |-> step]

\* Faulty variant of is_dangerous_command: the allowlist is consulted
\* before the denylist
is_dangerous_command_allowlist_first(cmd_str) ==
    LET cmd_lower == Lower(cmd_str)
        words == Split(cmd_lower)
    IN  IF words # <<>> /\ words[1] \in safe_diagnostic_commands
           /\ words[1] # T_chkdsk
        THEN ClassifierReturn(FALSE, "allowlist")
        ELSE IF \E danger_cmd \in dangerous_commands : Contains(cmd_lower, danger_cmd)
        THEN ClassifierReturn(TRUE, "denylist")
        ELSE IF words = <<>>
        THEN [raised |-> TRUE, value |-> FALSE, step |-> "first_word"]
        ELSE IF words[1] = T_chkdsk
                /\ ~Contains(cmd_lower, <<"/", "f">>)
                /\ ~Contains(cmd_lower, <<"/", "r">>)
        THEN ClassifierReturn(FALSE, "allowlist")
        ELSE ClassifierReturn(FALSE, "default")

\* Faulty variant of is_dangerous_command: chkdsk is allowlisted whatever
\* its flags
is_dangerous_command_chkdsk_always_safe(cmd_str) ==
    LET cmd_lower == Lower(cmd_str)
        words == Split(cmd_lower)
    IN  IF \E danger_cmd \in dangerous_commands : Contains(cmd_lower, danger_cmd)
        THEN ClassifierReturn(TRUE, "denylist")
        ELSE IF words = <<>>
        THEN [raised |-> TRUE, value |-> FALSE, step |-> "first_word"]
        ELSE IF words[1] \in safe_diagnostic_commands
        THEN ClassifierReturn(FALSE, "allowlist")
        ELSE ClassifierReturn(FALSE, "default")

\* Faulty variant of is_dangerous_command: chkdsk with a repair flag is
\* classified as dangerous
is_dangerous_command_repair_is_dangerous(cmd_str) ==
    LET cmd_lower == Lower(cmd_str)
        words == Split(cmd_lower)
    IN  IF \E danger_cmd \in dangerous_commands : Contains(cmd_lower, danger_cmd)
        THEN ClassifierReturn(TRUE, "denylist")
        ELSE IF words = <<>>
        THEN [raised |-> TRUE, value |-> FALSE, step |-> "first_word"]
        ELSE LET first_word == words[1] IN
             IF first_word \in safe_diagnostic_commands
                /\ first_word = T_chkdsk
                /\ ~Contains(cmd_lower, <<"/", "f">>)
                /\ ~Contains(cmd_lower, <<"/", "r">>)
             THEN ClassifierReturn(FALSE, "allowlist")
             ELSE IF first_word \in safe_diagnostic_commands /\ first_word # T_chkdsk
             THEN ClassifierReturn(FALSE, "allowlist")
             ELSE IF first_word = T_chkdsk
             THEN ClassifierReturn(TRUE, "default")
             ELSE ClassifierReturn(FALSE, "default")

is_dangerous_command(cmd_str) ==
    LET cmd_lower == Lower(cmd_str)
        words == Split(cmd_lower)
    IN  IF \E danger_cmd \in dangerous_commands : Contains(cmd_lower, danger_cmd)
        THEN ClassifierReturn(TRUE, "denylist")
        ELSE IF words = <<>>
        THEN [raised |-> TRUE, value |-> FALSE, step |-> "first_word"]
        ELSE LET first_word == words[1] IN
             IF first_word \in safe_diagnostic_commands
                /\ first_word = T_chkdsk
                /\ ~Contains(cmd_lower, <<"/", "f">>)
                /\ ~Contains(cmd_lower, <<"/", "r">>)
             THEN ClassifierReturn(FALSE, "allowlist")
             ELSE IF first_word \in safe_diagnostic_commands /\ first_word # T_chkdsk
             THEN ClassifierReturn(FALSE, "allowlist")
             ELSE ClassifierReturn(FALSE, "default")

(***************************************************************************)
(* CommandExecutor: run_command                                            *)
(***************************************************************************)
\* Bound: the largest exit status a launched process reports (0 is success).
MaxExitCode == 1

\* What the OS process-launch facility does once subprocess.run is reached:
\* the process exits with a status, or one of the three exceptions the
\* handlers of run_command distinguish is raised.
LaunchOutcomes ==
    [kind : {"exit"}, code : 0..MaxExitCode]
        \cup [kind : {"FileNotFoundError", "TimeoutExpired", "Exception"}, code : {0}]

\* A Python value passed as `command`: a str or a list of str.
StrCommand(s) == [isStr |-> TRUE, str |-> s, list |-> <<>>]

ListCommand(l) == [isStr |-> FALSE, str |-> <<>>, list |-> l]

\* log_action(action_type, details, success): the record appended to the log
LogRecord(action_type, cmd_str, success) ==
    [action_type |-> action_type, command |-> cmd_str, success |-> success]

\* the result dictionary as initialised by run_command, before the gate
InitialResult(cmd_str, shell) ==
    [raised      |-> FALSE,
     command_str |-> cmd_str,
     shell_mode  |-> shell,
     success     |-> FALSE,
     error       |-> "",
     return_code |-> <<>>,
     confirmed   |-> FALSE,
     executed    |-> FALSE,
     asked       |-> FALSE,
     dangerous   |-> FALSE,
     launched    |-> FALSE,
     run_arg     |-> <<>>,
     logs        |-> <<>>]

\* the early return of run_command on a command of the wrong type, or an
\* empty list: no "return_code" key, nothing logged
InvalidResult(repr, error) ==
    [InitialResult(repr, FALSE) EXCEPT !.error = error]

\* the exception that escapes run_command when is_dangerous_command raises
RaisedResult(cmd_str, shell) ==
    [InitialResult(cmd_str, shell) EXCEPT !.raised = TRUE, !.error = "IndexError"]

T_dot_msc == <<".","m","s","c">>

T_start == <<"s","t","a","r","t"," ">>

\* lines 946-954: what is handed to subprocess.run, as a text: a management
\* console file is started through the shell on Windows
RunArg(cmd_str, win) ==
    IF EndsWith(Lower(cmd_str), T_dot_msc) /\ win THEN T_start \o cmd_str ELSE cmd_str

\* Faulty variant of Execution: every exception leaves executed = True
Execution_always_executed(launching, cmd_str, outcome, win) ==
    LET res == [launching EXCEPT !.run_arg = RunArg(cmd_str, win)] IN
    IF outcome.kind = "exit"
    THEN [res EXCEPT !.launched = TRUE,
                     !.return_code = <<outcome.code>>,
                     !.success = (outcome.code = 0),
                     !.executed = TRUE,
                     !.logs = Append(@, LogRecord("command_executed", cmd_str,
                                                  outcome.code = 0))]
    ELSE [res EXCEPT !.launched = TRUE,
                     !.error = "generic",
                     !.success = FALSE,
                     !.executed = TRUE,
                     !.logs = Append(@, LogRecord("command_error", cmd_str, FALSE))]

\* the try block of run_command: the process is launched and its outcome, or
\* the exception, is written into the result and logged
Execution(launching, cmd_str, outcome, win) ==
    LET res == [launching EXCEPT !.run_arg = RunArg(cmd_str, win)] IN
    IF outcome.kind = "exit"
    THEN [res EXCEPT !.launched = TRUE,
                        !.return_code = <<outcome.code>>,
                        !.success = (outcome.code = 0),
                        !.executed = TRUE,
                        !.logs = Append(@, LogRecord("command_executed", cmd_str,
                                                     outcome.code = 0))]
    ELSE IF outcome.kind = "FileNotFoundError"
    THEN [res EXCEPT !.launched = TRUE,
                        !.error = "not_found",
                        !.success = FALSE,
                        !.executed = FALSE,
                        !.logs = Append(@, LogRecord("command_error", cmd_str, FALSE))]
    ELSE IF outcome.kind = "TimeoutExpired"
    THEN [res EXCEPT !.launched = TRUE,
                        !.error = "timeout",
                        !.success = FALSE,
                        !.executed = TRUE,
                        !.logs = Append(@, LogRecord("command_error", cmd_str, FALSE))]
    ELSE [res EXCEPT !.launched = TRUE,
                        !.error = "generic",
                        !.success = FALSE,
                        !.executed = FALSE,
                        !.logs = Append(@, LogRecord("command_error", cmd_str, FALSE))]

\* Faulty variant of Gate: the process is launched whatever the answer
Gate_ignores_answer(res, cmd_str, dangerous, require_confirmation, answer, outcome, win) ==
    LET needs_confirmation == require_confirmation \/ dangerous
        user_confirmed == IF needs_confirmation THEN answer ELSE TRUE
        gated == [res EXCEPT !.dangerous = dangerous,
                             !.asked = needs_confirmation,
                             !.confirmed = user_confirmed]
    IN  Execution(gated, cmd_str, outcome, win)

\* Faulty variant of Gate: a dangerous command is not asked about when the
\* caller does not require the confirmation
Gate_trusts_caller(res, cmd_str, dangerous, require_confirmation, answer, outcome, win) ==
    LET needs_confirmation == require_confirmation
        user_confirmed == IF needs_confirmation THEN answer ELSE TRUE
        gated == [res EXCEPT !.dangerous = dangerous,
                             !.asked = needs_confirmation,
                             !.confirmed = user_confirmed]
    IN  IF needs_confirmation /\ ~user_confirmed
        THEN [gated EXCEPT !.logs = Append(@, LogRecord("command_cancelled",
                                                        cmd_str, FALSE))]
        ELSE Execution(gated, cmd_str, outcome, win)

\* Faulty variant of Gate: a decline is logged as an execution error
Gate_logs_error(res, cmd_str, dangerous, require_confirmation, answer, outcome, win) ==
    LET needs_confirmation == require_confirmation \/ dangerous
        user_confirmed == IF needs_confirmation THEN answer ELSE TRUE
        gated == [res EXCEPT !.dangerous = dangerous,
                             !.asked = needs_confirmation,
                             !.confirmed = user_confirmed]
    IN  IF needs_confirmation /\ ~user_confirmed
        THEN [gated EXCEPT !.logs = Append(@, LogRecord("command_error",
                                                        cmd_str, FALSE))]
        ELSE Execution(gated, cmd_str, outcome, win)

\* the confirmation gate of run_command: the operator is asked when
\* require_confirmation or the command is dangerous; `answer` is the
\* operator's reply, read only when asked
Gate(res, cmd_str, dangerous, require_confirmation, answer, outcome, win) ==
    LET needs_confirmation == require_confirmation \/ dangerous
        user_confirmed == IF needs_confirmation THEN answer ELSE TRUE
        gated == [res EXCEPT !.dangerous = dangerous,
                                !.asked = needs_confirmation,
                                !.confirmed = user_confirmed]
    IN  IF needs_confirmation /\ ~user_confirmed
        THEN [gated EXCEPT !.logs = Append(@, LogRecord("command_cancelled",
                                                        cmd_str, FALSE))]
        ELSE Execution(gated, cmd_str, outcome, win)

\* run_command(command, shell=shell, require_confirmation=...), with the
\* operator's answer, the launch outcome and the platform as inputs
run_command(command, shell, require_confirmation, answer, outcome, win) ==
    IF shell /\ ~command.isStr
    THEN InvalidResult(<<"r","e","p","r">>, "Invalid command type for shell=True")
    ELSE IF ~shell /\ command.isStr
    THEN InvalidResult(<<"r","e","p","r">>, "Invalid command type for shell=False")
    ELSE IF ~shell /\ command.list = <<>>
    THEN InvalidResult(<<"[","]">>, "Empty command list")
    ELSE LET cmd_str == IF shell THEN command.str
                        ELSE Join([i \in 1..Len(command.list) |->
                                       ShlexQuote(command.list[i])])
             verdict == is_dangerous_command(cmd_str)
         IN  IF verdict.raised
             THEN RaisedResult(cmd_str, shell)
             ELSE Gate(InitialResult(cmd_str, shell), cmd_str, verdict.value,
                       require_confirmation, answer, outcome, win)

(***************************************************************************)
(* ActionExtractor: extract_commands_from_llm_response (the definition at  *)
(* line 2197, which replaces the one at line 1409 when the module loads)   *)
(***************************************************************************)
\* the first position >= i of s that holds no whitespace (Len(s)+1 at the end)
RECURSIVE SkipSpace(_, _)
SkipSpace(s, i) == IF i <= Len(s) /\ IsSpace(s[i]) THEN SkipSpace(s, i + 1) ELSE i

\* the text p stands in s at position i
At(s, i, p) == i + Len(p) - 1 <= Len(s) /\ SubSeq(s, i, i + Len(p) - 1) = p

\* the end of the run [^\s\]]* that starts at i
RECURSIVE UrlRunEnd(_, _)
UrlRunEnd(s, i) ==
    IF i <= Len(s) /\ ~IsSpace(s[i]) /\ s[i] # "]" THEN UrlRunEnd(s, i + 1) ELSE i

NoMatch == [ok |-> FALSE, start |-> 0, end |-> 0, group |-> <<>>]

\* url_pattern = \[\[URL:\s*(https?://[^\s\]]+)\s*\]\] with re.IGNORECASE,
\* tried at position i (1-based); start and end are Python's match.span()
MatchUrlAt(s, i) ==
    LET low == Lower(s)
        g == SkipSpace(s, i + 6)
        h == IF At(low, g, <<"h","t","t","p","s",":","/","/">>) THEN g + 8
             ELSE IF At(low, g, <<"h","t","t","p",":","/","/">>) THEN g + 7
             ELSE 0
        e == UrlRunEnd(s, h)
        c == SkipSpace(s, e)
    IN  IF At(s, i, <<"[","[">>)
           /\ At(low, i, <<"[","[","u","r","l",":">>) /\ h # 0 /\ e > h
           /\ At(s, c, <<"]","]">>)
        THEN [ok |-> TRUE, start |-> i - 1, end |-> c + 1, group |-> SubSeq(s, g, e - 1)]
        ELSE NoMatch

\* \s*\*\*\*\]\] matches at position e
ClosesAt(s, e) == At(s, SkipSpace(s, e), <<"*","*","*","]","]">>)

\* the lazy group (.*?) that starts at cs: the least end e at which the rest
\* of the pattern matches, the group holding no newline; 0 when there is none
RECURSIVE LazyEnd(_, _, _)
LazyEnd(s, cs, e) ==
    IF e > Len(s) + 1 THEN 0
    ELSE IF ClosesAt(s, e) THEN e
    ELSE IF e > Len(s) \/ s[e] = "\n" THEN 0
    ELSE LazyEnd(s, cs, e + 1)

\* command_pattern = \[\[\*\*\*\s*(.*?)\s*\*\*\*\]\] tried at position i
MatchCommandAt(s, i) ==
    LET cs == SkipSpace(s, i + 5)
        e == LazyEnd(s, cs, cs)
    IN  IF At(s, i, <<"[","[","*","*","*">>) /\ e # 0
        THEN [ok |-> TRUE, start |-> i - 1, end |-> SkipSpace(s, e) + 4,
              group |-> SubSeq(s, cs, e - 1)]
        ELSE NoMatch

\* re.finditer: the non-overlapping matches, leftmost first
RECURSIVE FindUrls(_, _, _)
FindUrls(s, i, acc) ==
    IF i > Len(s) THEN acc
    ELSE LET m == MatchUrlAt(s, i) IN
         IF m.ok THEN FindUrls(s, m.end + 1, Append(acc, m))
         ELSE FindUrls(s, i + 1, acc)

RECURSIVE FindCommands(_, _, _)
FindCommands(s, i, acc) ==
    IF i > Len(s) THEN acc
    ELSE LET m == MatchCommandAt(s, i) IN
         IF m.ok THEN FindCommands(s, m.end + 1, Append(acc, m))
         ELSE FindCommands(s, i + 1, acc)

\* the names the extractor treats as foreign-OS-only on Windows
foreign_commands ==
    { <<"w","h","i","c","h">>,
      <<"s","u","d","o">>,
      <<"a","p","t">>,
      <<"y","u","m">>,
      <<"d","n","f">>,
      <<"a","p","t","-","g","e","t">> }

T_mdsched_exe == <<"m","d","s","c","h","e","d",".","e","x","e">>

\* cmd_first_word: shlex.split(cmd_text)[0].lower(), or the first word of
\* split() when shlex raises
FirstWord(cmd_text) ==
    LET sh == ShlexSplit(cmd_text)
        words == Split(cmd_text)
    IN  IF sh.ok /\ sh.toks # <<>> THEN Lower(sh.toks[1])
        ELSE IF words # <<>> THEN Lower(words[1])
        ELSE <<>>

\* the item built from one command match that overlaps no URL span and whose
\* stripped text is not empty
CommandItem(m, win) ==
    LET cmd_text == Strip(m.group)
        cmd_lower == Lower(cmd_text)
    IN  IF win /\ FirstWord(cmd_text) \in foreign_commands
        THEN [type |-> "invalid_command", value |-> cmd_text,
              original_match_position |-> m.start]
        ELSE IF Contains(cmd_lower, <<"m","e","m","o","r","y"," ","d","i","a","g","n","o","s","t","i","c">>)
                \/ Contains(cmd_lower, <<"m","d","s","c","h","e","d">>)
        THEN [type |-> "command", value |-> T_mdsched_exe,
              original_match_position |-> m.start]
        ELSE [type |-> "command", value |-> cmd_text,
              original_match_position |-> m.start]

UrlItem(m) ==
    [type |-> "url", value |-> Strip(m.group), original_match_position |-> m.start]

\* Faulty variant of IsOverlapped: the URL regions are not consulted
IsOverlapped_never(m, urls) == FALSE

\* the command match m shares a character with a URL match (processed_indices)
IsOverlapped(m, urls) ==
    \E k \in 1..Len(urls) : m.start < urls[k].end /\ urls[k].start < m.end

\* the command matches that yield an item: not overlapped, not empty
KeptCommands(cmds, urls) ==
    SelectSeq(cmds, LAMBDA m : ~IsOverlapped(m, urls) /\ Strip(m.group) # <<>>)

\* Faulty variant of SortByPosition: the items stay as they were appended,
\* URL items first
SortByPosition_keeps_append_order(items) == items

\* items.sort(key=original_match_position): insertion into a sorted list
RECURSIVE SortByPosition(_)
SortByPosition(items) ==
    IF items = <<>> THEN <<>>
    ELSE LET rest == SortByPosition(Tail(items))
             x == Head(items)
             before == SelectSeq(rest, LAMBDA y :
                           y.original_match_position < x.original_match_position)
             after == SelectSeq(rest, LAMBDA y :
                           y.original_match_position >= x.original_match_position)
         IN  before \o <<x>> \o after

extract_commands_from_llm_response(text, win) ==
    LET urls == FindUrls(text, 1, <<>>)
        cmds == KeptCommands(FindCommands(text, 1, <<>>), urls)
        items == [k \in 1..Len(urls) |-> UrlItem(urls[k])]
                     \o [k \in 1..Len(cmds) |-> CommandItem(cmds[k], win)]
    IN  SortByPosition(items)

(***************************************************************************)
(* Texts of the model: command texts, and the pieces the decision engine's *)
(* responses are written from                                              *)
(***************************************************************************)
\* known_builtins of the existence pre-check
known_builtins ==
    { <<"c","m","d">>,
      <<"p","o","w","e","r","s","h","e","l","l">>,
      <<"r","e","n">>,
      <<"c","o","p","y">>,
      <<"d","e","l">>,
      <<"d","i","r">>,
      <<"m","o","v","e">>,
      <<"r","d">>,
      <<"m","d">>,
      <<"e","c","h","o">>,
      <<"s","e","t">>,
      <<"n","e","t">>,
      <<"c","h","k","d","s","k">>,
      <<"r","e","g","s","v","r","3","2">>,
      <<"s","f","c">>,
      <<"w","m","i","c">>,
      <<"t","a","s","k","l","i","s","t">>,
      <<"i","p","c","o","n","f","i","g">>,
      <<"s","y","s","t","e","m","i","n","f","o">>,
      <<"d","r","i","v","e","r","q","u","e","r","y">>,
      <<"w","h","e","r","e">>,
      <<"s","t","a","r","t">>,
      <<"m","s","i","n","f","o","3","2">>,
      <<"d","x","d","i","a","g">>,
      <<"d","e","v","m","g","m","t",".","m","s","c">>,
      <<"e","v","e","n","t","v","w","r",".","m","s","c">>,
      <<"s","e","r","v","i","c","e","s",".","m","s","c">>,
      <<"t","a","s","k","m","g","r">>,
      <<"p","e","r","f","m","o","n">>,
      <<"w","i","n","v","e","r">>,
      <<"c","o","n","t","r","o","l">>,
      <<"m","d","s","c","h","e","d",".","e","x","e">> }

T_sfc == <<"s","f","c"," ","/","s","c","a","n","n","o","w">>

T_ping == <<"p","i","n","g"," ","x">>

T_format == <<"f","o","r","m","a","t"," ","c",":">>

T_sudo == <<"s","u","d","o"," ","a","p","t">>

T_pipe == <<"d","i","r"," ","|"," ","m","o","r","e">>

T_url == <<"h","t","t","p",":","/","/","x">>

P_prose == <<"T","r","y"," ","t","h","i","s","."," ">>

P_open == <<"[","[","*","*","*"," ">>

P_close == <<" ","*","*","*","]","]">>

P_urlopen == <<"[","[","U","R","L",":"," ">>

P_urlclose == <<"]","]">>

P_sep == <<" ","t","h","e","n"," ">>

V_proceed == <<"P","R","O","C","E","E","D","."," ">>

V_suggest == <<"S","U","G","G","E","S","T","_","N","E","W","."," ">>

V_stop == <<"S","T","O","P","."," ">>

V_other == <<"M","a","y","b","e"," ","P","R","O","C","E","E","D","."," ">>

T_where == <<"w","h","e","r","e">>

\* a command span and a URL span as the decision engine writes them
CmdSpan(t) == P_open \o t \o P_close

UrlSpan(u) == P_urlopen \o u \o P_urlclose

\* The initial diagnostic texts handle_llm_response is called with: no
\* actionable item; a URL only; one command; two commands (one of them not a
\* built-in); the same command twice; a dangerous command and a pipeline; a
\* URL, a foreign-OS command and a command.
InitialResponses ==
    { P_prose,
      P_prose \o UrlSpan(T_url),
      P_prose \o CmdSpan(T_sfc),
      P_prose \o CmdSpan(T_ping) \o P_sep \o CmdSpan(T_sfc),
      P_prose \o CmdSpan(T_sfc) \o P_sep \o CmdSpan(T_sfc),
      P_prose \o CmdSpan(T_format) \o P_sep \o CmdSpan(T_pipe),
      P_prose \o UrlSpan(T_url) \o P_sep \o CmdSpan(T_sudo) \o P_sep \o CmdSpan(T_sfc) }

\* The texts the decision engine answers a consultation with: empty, each
\* verdict token, no token, SUGGEST_NEW without a span, with a command span,
\* with a URL span before the command span, with a foreign-OS command.
AnalysisTexts ==
    { <<>>,
      V_proceed,
      V_stop,
      V_other,
      V_suggest,
      V_suggest \o CmdSpan(T_sfc),
      V_suggest \o CmdSpan(T_ping),
      V_suggest \o UrlSpan(T_url) \o P_sep \o CmdSpan(T_ping),
      V_suggest \o CmdSpan(T_sudo) }

\* What ask_llm meets: the client returns a text, the call raises, or no
\* client or model is available
AnalysisReplies ==
    [kind : {"content"}, text : AnalysisTexts]
        \cup [kind : {"exception", "unavailable"}, text : {<<>>}]

(***************************************************************************)
(* Persisted memory document and action log                                *)
(***************************************************************************)
\* max_items, the default of add_to_memory_list
MaxItems == 20

\* Faulty variant of add_to_memory_list: the value is put at the end
add_to_memory_list_appends(mem, value) ==
    LET inserted == mem \o <<value>>
    IN  IF Len(inserted) > MaxItems THEN SubSeq(inserted, 1, MaxItems) ELSE inserted

\* add_to_memory_list(memory, "command_history", value): insert at the
\* front, trim to max_items; the document is then saved by the caller's
\* save_memory (modelled where it is called)
add_to_memory_list(mem, value) ==
    LET inserted == <<value>> \o mem
    IN  IF Len(inserted) > MaxItems THEN SubSeq(inserted, 1, MaxItems) ELSE inserted

(***************************************************************************)
(* OrchestrationLoop: handle_llm_response                                  *)
(***************************************************************************)
\* Bound: how many suggested commands the operator accepts in one run.
MaxInserts == 1

VARIABLES
    windows,                  \* platform.system() == "Windows"
    response,                 \* the text handle_llm_response is called with
    pc,                       \* the position of the control flow
    executable_commands,      \* the plan: a list of items
    current_command_index,    \* the cursor (0-based, as in the code)
    session_command_history,  \* command texts and outcome records
    call,                     \* the arguments of the last run_command call
    result,                   \* the result of the last run_command call
    memory,                   \* the in-memory command_history of the document
    memory_file,              \* the command_history saved on disk
    log_file,                 \* the action log on disk
    launched,                 \* ghost: every command text given to subprocess.run
    consulted,                \* ghost: the cursor at every ask_llm call
    analysis,                 \* the last analysis response and the answer to run_new
    inserts,                  \* ghost: the number of inserted suggestions
    messages,                 \* ghost: the outcome messages printed
    args,                     \* the arguments of a function called on its own
    returned                  \* what that call returned

vars ==
    <<windows, response, pc, executable_commands, current_command_index,
      session_command_history, call, result, memory, memory_file, log_file,
      launched, consulted, analysis, inserts, messages, args, returned>>

\* no function has been called on its own
NoArgs == [function |-> "none"]

NotReturned == [done |-> FALSE]

NoResult == InitialResult(<<>>, FALSE)

\* the arguments of a call of run_command, with the operator's answer (read
\* only when the operator is asked) and the launch outcome (there is one only
\* when subprocess.run is reached)
CallRecord(command, shell, require_confirmation, answer, outcome, res) ==
    [made |-> TRUE, command |-> command, shell |-> shell,
     require_confirmation |-> require_confirmation,
     answer |-> IF res.asked THEN (IF answer THEN "yes" ELSE "no") ELSE "none",
     outcome |-> IF res.launched THEN outcome.kind ELSE "none",
     code |-> IF res.launched THEN outcome.code ELSE 0]

\* no consultation has taken place yet
NoAnalysis == [none |-> TRUE, text |-> <<>>, run_new |-> "none"]

NoCall ==
    [made |-> FALSE, command |-> StrCommand(<<>>), shell |-> FALSE,
     require_confirmation |-> FALSE, answer |-> "none", outcome |-> "none", code |-> 0]

\* an entry of session_command_history: the command text appended before
\* the step (line 1615), or the outcome record appended after run_command
TextEntry(cmd_str) ==
    [entry |-> "text", command |-> cmd_str, executed |-> FALSE, confirmed |-> FALSE,
     success |-> FALSE, error |-> "", return_code |-> <<>>]

OutcomeEntry(cmd_str, res) ==
    [entry |-> "outcome", command |-> cmd_str, executed |-> res.executed,
     confirmed |-> res.confirmed, success |-> res.success, error |-> res.error,
     return_code |-> res.return_code]

\* Faulty variant of InHistory: the cycle guard compares the text with the
\* most recent entry only
InHistory_last_only(cmd_str, history) ==
    /\ history # <<>>
    /\ history[Len(history)].command = cmd_str

\* Faulty variant of InHistory: the cycle guard compares the text with the
\* first entry of the history only
InHistory_first_only(cmd_str, history) ==
    /\ history # <<>>
    /\ history[1].command = cmd_str

\* Faulty variant of InHistory: the cycle guard never finds the text
InHistory_never(cmd_str, history) == FALSE

\* cmd_str in session_command_history: a str equals only a str entry
InHistory(cmd_str, history) ==
    \E k \in 1..Len(history) :
        history[k].entry = "text" /\ history[k].command = cmd_str

\* Faulty variant of Epilogue: the summary is printed only after a run
\* that completed its plan
Epilogue_summary_when_complete(index, plan, history) ==
    IF index < Len(plan) THEN {"stopped_early"}
    ELSE IF history # <<>> THEN {"summary"} ELSE {}

\* the lines after the while loop: the early-stop warning and the summary
Epilogue(index, plan, history) ==
    (IF index < Len(plan) THEN {"stopped_early"} ELSE {})
        \cup (IF history # <<>> THEN {"summary"} ELSE {})

(***************************************************************************)
(* The calls the loop makes, tabulated over the texts of the model: each   *)
(* table is the function named in it, evaluated once per argument.         *)
(***************************************************************************)
\* extract_commands_from_llm_response on the initial and the analysis texts
Extracted ==
    [p \in BOOLEAN \X (InitialResponses \cup AnalysisTexts) |->
        extract_commands_from_llm_response(p[2], p[1])] @@ <<>>

\* every value an item of the plan can hold
PlanTexts ==
    UNION { { Extracted[p][k].value : k \in 1..Len(Extracted[p]) } :
            p \in DOMAIN Extracted }

Init ==
    /\ windows \in BOOLEAN
    /\ response \in InitialResponses
    /\ pc = "start"
    /\ executable_commands = <<>>
    /\ current_command_index = 0
    /\ session_command_history = <<>>
    /\ call = NoCall
    /\ result = NoResult
    /\ memory = <<>>
    /\ memory_file = <<>>
    /\ log_file = <<>>
    /\ launched = <<>>
    /\ consulted = <<>>
    /\ analysis = NoAnalysis
    /\ inserts = 0
    /\ messages = {}
    /\ args = NoArgs
    /\ returned = NotReturned

\* lines 1510-1579: extraction, the URL prompt, the prompt to proceed
Start ==
    /\ pc = "start"
    /\ \E open_urls \in BOOLEAN, opened \in BOOLEAN, proceed \in BOOLEAN,
          items \in {Extracted[<<windows, response>>]} :
        LET commands == SelectSeq(items, LAMBDA it : it.type = "command")
            urls == SelectSeq(items, LAMBDA it : it.type = "url")
        IN  /\ log_file' = IF open_urls
                           THEN log_file \o [k \in 1..Len(urls) |->
                                    IF opened
                                    THEN LogRecord("url_opened", urls[k].value, TRUE)
                                    ELSE LogRecord("url_open_failed", urls[k].value,
                                                   FALSE)]
                           ELSE log_file
            /\ IF items = <<>>
               THEN /\ pc' = "done"
                    /\ messages' = messages \cup {"no_items"}
                    /\ UNCHANGED <<executable_commands, memory>>
               ELSE IF commands = <<>>
               THEN /\ pc' = "done"
                    /\ messages' = messages \cup {"no_commands"}
                    /\ UNCHANGED <<executable_commands, memory>>
               ELSE IF ~proceed
               THEN /\ pc' = "done"
                    /\ messages' = messages \cup {"skipped"}
                    /\ UNCHANGED <<executable_commands, memory>>
               ELSE /\ pc' = "loop"
                    /\ executable_commands' = commands
                    /\ memory' = memory_file
                    /\ UNCHANGED messages
    /\ UNCHANGED <<args, returned, windows, response, current_command_index, session_command_history,
                   call, result, memory_file, launched, consulted, analysis, inserts>>

\* lines 1583-1615: the loop condition, the cycle guard, the history entry
LoopHead ==
    /\ pc = "loop"
    /\ IF current_command_index >= Len(executable_commands)
       THEN /\ pc' = "done"
            /\ messages' = messages \cup Epilogue(current_command_index,
                               executable_commands, session_command_history)
            /\ UNCHANGED session_command_history
       ELSE LET cmd_str == executable_commands[current_command_index + 1].value IN
            IF InHistory(cmd_str, session_command_history)
            THEN /\ pc' = "done"
                 /\ messages' = messages \cup {"cycle_stop"}
                        \cup Epilogue(current_command_index, executable_commands,
                                      session_command_history)
                 /\ UNCHANGED session_command_history
            ELSE /\ pc' = "precheck"
                 /\ session_command_history' =
                        Append(session_command_history, TextEntry(cmd_str))
                 /\ UNCHANGED messages
    /\ UNCHANGED <<args, returned, windows, response, executable_commands, current_command_index, call,
                   result, memory, memory_file, log_file, launched, consulted, analysis,
                   inserts>>

\* potential_cmd_name: shlex.split(cmd_str)[0], or cmd_str.split()[0]
PotentialCmdName(cmd_str) ==
    LET sh == ShlexSplit(cmd_str)
    IN  IF sh.ok /\ sh.toks # <<>> THEN sh.toks[1] ELSE Split(cmd_str)[1]

\* the step needs the existence probe (line 1630)
NeedsProbe(cmd_str, win) ==
    LET name == PotentialCmdName(cmd_str)
    IN  /\ win
        /\ Lower(name) \notin known_builtins
        /\ "\\" \notin Range(name)
        /\ "/" \notin Range(name)

\* line 1633: run_command(['where', name], require_confirmation=False)
WhereResult ==
    [p \in PlanTexts \X BOOLEAN \X (0..MaxExitCode) |->
        run_command(ListCommand(<<T_where, PotentialCmdName(p[1])>>), FALSE, FALSE,
                    p[2], [kind |-> "exit", code |-> p[3]], TRUE)] @@ <<>>

ProbeNeeded ==
    [p \in PlanTexts \X BOOLEAN |-> NeedsProbe(p[1], p[2])] @@ <<>>

\* Faulty variant of PreCheck: declining after a failed probe stops the
\* loop instead of skipping the step
PreCheck_stops_on_decline ==
    /\ pc = "precheck"
    /\ LET cmd_str == executable_commands[current_command_index + 1].value IN
       IF ProbeNeeded[<<cmd_str, windows>>]
       THEN \E answer \in BOOLEAN, code \in 0..MaxExitCode, try_anyway \in BOOLEAN :
            \E where_result \in {WhereResult[<<cmd_str, answer, code>>]} :
              LET skipped == ~where_result.success /\ ~try_anyway
              IN  /\ log_file' = log_file \o where_result.logs
                         \o (IF skipped
                             THEN <<LogRecord("command_skipped", cmd_str, FALSE)>>
                             ELSE <<>>)
                  /\ launched' = IF where_result.launched
                                 THEN Append(launched, where_result.run_arg)
                                 ELSE launched
                  /\ pc' = IF skipped THEN "done" ELSE "execute"
                  /\ UNCHANGED current_command_index
       ELSE /\ pc' = "execute"
            /\ UNCHANGED <<log_file, launched, current_command_index>>
    /\ UNCHANGED <<args, returned, windows, response, executable_commands, session_command_history,
                   call, result, memory, memory_file, consulted, analysis, inserts,
                   messages>>

\* lines 1617-1650: the existence probe with 'where'; 'where' itself is
\* launched and exits with a status
PreCheck ==
    /\ pc = "precheck"
    /\ LET cmd_str == executable_commands[current_command_index + 1].value IN
       IF ProbeNeeded[<<cmd_str, windows>>]
       THEN \E answer \in BOOLEAN, code \in 0..MaxExitCode, try_anyway \in BOOLEAN :
            \E where_result \in {WhereResult[<<cmd_str, answer, code>>]} :
              LET skipped == ~where_result.success /\ ~try_anyway
              IN  /\ log_file' = log_file \o where_result.logs
                         \o (IF skipped
                             THEN <<LogRecord("command_skipped", cmd_str, FALSE)>>
                             ELSE <<>>)
                  /\ launched' = IF where_result.launched
                                 THEN Append(launched, where_result.run_arg)
                                 ELSE launched
                  /\ IF skipped
                     THEN /\ current_command_index' = current_command_index + 1
                          /\ pc' = "loop"
                     ELSE /\ pc' = "execute"
                          /\ UNCHANGED current_command_index
       ELSE /\ pc' = "execute"
            /\ UNCHANGED <<log_file, launched, current_command_index>>
    /\ UNCHANGED <<args, returned, windows, response, executable_commands, session_command_history,
                   call, result, memory, memory_file, consulted, analysis, inserts,
                   messages>>

\* line 1658: the text needs the shell
HasShellOperator(cmd_str, win) ==
    \/ \E op \in {<<"|">>, <<">">>, <<"<">>, <<"&","&">>, <<"|","|">>} :
           Contains(cmd_str, op)
    \/ (win /\ Contains(cmd_str, <<"%">>))

\* lines 1652-1679: the mode and the value passed to run_command
UseShell(cmd_str, win) == HasShellOperator(cmd_str, win) \/ ~ShlexSplit(cmd_str).ok

CommandFor(cmd_str, win) ==
    IF UseShell(cmd_str, win) THEN StrCommand(cmd_str)
    ELSE ListCommand(ShlexSplit(cmd_str).toks)

\* the record added to the memory document for an executed step
MemoryRecord(cmd_str, res) ==
    [command |-> cmd_str, success |-> res.success, return_code |-> res.return_code]

\* line 1673: run_command for the step at the cursor, by command text,
\* platform, operator's answer and launch outcome
StepResult ==
    [p \in PlanTexts \X BOOLEAN \X BOOLEAN \X LaunchOutcomes |->
        run_command(CommandFor(p[1], p[2]), UseShell(p[1], p[2]), TRUE, p[3], p[4],
                    p[2])]
        @@ <<>>

\* lines 1652-1731 and 1847-1858: run the step, record it, and decide
\* whether the decision engine is consulted
Execute ==
    /\ pc = "execute"
    /\ \E answer \in BOOLEAN, outcome \in LaunchOutcomes :
      \E res \in {StepResult[<<executable_commands[current_command_index + 1].value,
                               windows, answer, outcome>>]} :
        LET cmd_str == executable_commands[current_command_index + 1].value
            history == Append(session_command_history, OutcomeEntry(cmd_str, res))
            mem == add_to_memory_list(memory, MemoryRecord(cmd_str, res))
            is_last_command == current_command_index = Len(executable_commands) - 1
        IN  /\ call' = CallRecord(CommandFor(cmd_str, windows), UseShell(cmd_str, windows),
                                   TRUE, answer, outcome, res)
            /\ result' = res
            /\ session_command_history' = history
            /\ log_file' = log_file \o res.logs
            /\ launched' = IF res.launched THEN Append(launched, res.run_arg)
                           ELSE launched
            /\ IF res.executed
               THEN /\ memory' = mem
                    /\ memory_file' = mem
                    /\ IF ~res.success \/ ~is_last_command
                       THEN /\ pc' = "consult"
                            /\ UNCHANGED messages
                       ELSE /\ pc' = "loop"
                            /\ messages' = messages \cup {"final_success"}
               ELSE /\ pc' = "done"
                    /\ messages' = messages \cup {"not_executed_stop"}
                           \cup Epilogue(current_command_index, executable_commands,
                                         history)
                    /\ UNCHANGED <<memory, memory_file>>
    /\ UNCHANGED <<args, returned, windows, response, executable_commands, current_command_index,
                   consulted, analysis, inserts>>

\* ask_llm: the content, or None when the call raised or could not be made
ask_llm(reply) ==
    IF reply.kind = "content" THEN [none |-> FALSE, text |-> reply.text]
    ELSE [none |-> TRUE, text |-> <<>>]

NoItem == [type |-> "none", value |-> <<>>, original_match_position |-> 0]

\* Faulty variant of NextAction: an unclear response counts as PROCEED
NextAction_defaults_to_proceed(analysis_response, win) ==
    LET response_lower_strip == Strip(Lower(analysis_response.text))
        new_commands == extract_commands_from_llm_response(analysis_response.text, win)
    IN  IF analysis_response.none \/ analysis_response.text = <<>>
        THEN [action |-> "stop", new_cmd_info |-> NoItem]
        ELSE IF StartsWith(response_lower_strip,
                           <<"s","u","g","g","e","s","t","_","n","e","w">>)
        THEN IF new_commands # <<>>
             THEN [action |-> "suggest_new", new_cmd_info |-> new_commands[1]]
             ELSE [action |-> "stop", new_cmd_info |-> NoItem]
        ELSE IF StartsWith(response_lower_strip, <<"s","t","o","p">>)
        THEN [action |-> "stop", new_cmd_info |-> NoItem]
        ELSE [action |-> "proceed", new_cmd_info |-> NoItem]

\* lines 1788-1818: the action read from the analysis response
NextAction(analysis_response, win) ==
    LET response_lower_strip == Strip(Lower(analysis_response.text))
        new_commands == extract_commands_from_llm_response(analysis_response.text, win)
    IN  IF analysis_response.none \/ analysis_response.text = <<>>
        THEN [action |-> "stop", new_cmd_info |-> NoItem]
        ELSE IF StartsWith(response_lower_strip, <<"p","r","o","c","e","e","d">>)
        THEN [action |-> "proceed", new_cmd_info |-> NoItem]
        ELSE IF StartsWith(response_lower_strip,
                           <<"s","u","g","g","e","s","t","_","n","e","w">>)
        THEN IF new_commands # <<>>
             THEN [action |-> "suggest_new", new_cmd_info |-> new_commands[1]]
             ELSE [action |-> "stop", new_cmd_info |-> NoItem]
        ELSE [action |-> "stop", new_cmd_info |-> NoItem]

\* Faulty variant of ListInsert: the new element replaces the one at i
ListInsert_replaces(l, i, x) == SubSeq(l, 1, i) \o <<x>> \o SubSeq(l, i + 2, Len(l))

\* list.insert(i, x) for 0 <= i <= len
ListInsert(l, i, x) == SubSeq(l, 1, i) \o <<x>> \o SubSeq(l, i + 1, Len(l))

\* the action for every reply of the decision engine
Verdict ==
    [p \in BOOLEAN \X AnalysisReplies |-> NextAction(ask_llm(p[2]), p[1])] @@ <<>>

\* lines 1786-1845: the consultation and the action taken on its verdict;
\* the operator accepts at most limit suggestions
ConsultUpTo(limit) ==
    /\ pc = "consult"
    /\ \E reply \in AnalysisReplies,
          run_new \in (IF inserts < limit THEN BOOLEAN ELSE {FALSE}) :
      \E next \in {Verdict[<<windows, reply>>]} :
        /\ consulted' = Append(consulted, current_command_index)
        /\ analysis' = [none |-> ask_llm(reply).none, text |-> ask_llm(reply).text,
                        run_new |-> IF next.action = "suggest_new"
                                    THEN (IF run_new THEN "yes" ELSE "no")
                                    ELSE "none"]
        /\ log_file' = IF reply.kind = "exception"
                       THEN Append(log_file, LogRecord("llm_error", <<>>, FALSE))
                       ELSE log_file
        /\ IF next.action = "proceed"
           THEN /\ current_command_index' = current_command_index + 1
                /\ pc' = "loop"
                /\ UNCHANGED <<executable_commands, inserts, messages>>
           ELSE IF next.action = "suggest_new" /\ run_new
           THEN /\ executable_commands' =
                       ListInsert(executable_commands, current_command_index + 1,
                                  next.new_cmd_info)
                /\ current_command_index' = current_command_index + 1
                /\ inserts' = inserts + 1
                /\ pc' = "loop"
                /\ UNCHANGED messages
           ELSE /\ pc' = "done"
                /\ messages' = messages
                       \cup {IF next.action = "suggest_new" THEN "rejected_suggestion"
                             ELSE "llm_stop"}
                       \cup Epilogue(current_command_index, executable_commands,
                                     session_command_history)
                /\ UNCHANGED <<executable_commands, current_command_index, inserts>>
    /\ UNCHANGED <<args, returned, windows, response, session_command_history, call, result, memory,
                   memory_file, launched>>

Consult == ConsultUpTo(MaxInserts)

Next == Start \/ LoopHead \/ PreCheck \/ Execute \/ Consult

Spec == Init /\ [][Next]_vars

\* Bound: the operator accepts up to this many suggestions in the runs
\* checked for termination. It is the number of texts a plan can hold: a
\* suggestion is made only after a step was run, and the cycle guard lets
\* each text be run once, so the loop never gets as far as this limit.
MaxSuggestions == Cardinality(PlanTexts)

\* The runs checked for termination start from a response holding at most
\* one command; their plans grow by the suggestions the operator accepts.
InitLive ==
    /\ Init
    /\ Len(SelectSeq(Extracted[<<windows, response>>],
                     LAMBDA it : it.type = "command")) <= 1

\* The loop with the operator free to accept every suggestion. It is
\* sequential code whose prompts, consultations and launches are blocking
\* calls: once they return, the next statement runs, hence weak fairness
\* of the steps.
NextLive ==
    Start \/ LoopHead \/ PreCheck \/ Execute \/ ConsultUpTo(MaxSuggestions)

SpecLive == InitLive /\ [][NextLive]_vars /\ WF_vars(NextLive)

(***************************************************************************)
(* CommandExecutor driven directly: run_command called by any caller (the  *)
(* loop, interactive_mode's 'run:' and 'execute') with any arguments       *)
(***************************************************************************)
\* Bound: the calls go on until the action log holds this many records.
MaxLogLen == 1

T_msc == <<"d","e","v","m","g","m","t",".","M","S","C">>

\* the values passed as `command`: texts and argument lists, safe and
\* dangerous, empty and blank
RunCommands ==
    { StrCommand(T_sfc), StrCommand(T_format), StrCommand(T_pipe),
      StrCommand(<<>>), StrCommand(<<" ">>), StrCommand(T_msc),
      ListCommand(<<>>), ListCommand(<<<<"s","f","c">>, <<"/","s","c","a","n","n","o","w">>>>),
      ListCommand(<<<<"f","o","r","m","a","t">>, <<"c",":">>>>),
      ListCommand(<<T_where, <<"f","o","r","m","a","t"," ","c">>>>) }

\* run_command on every argument tuple of the driver
RunResult ==
    [p \in RunCommands \X BOOLEAN \X BOOLEAN \X BOOLEAN \X LaunchOutcomes \X BOOLEAN |->
        run_command(p[1], p[2], p[3], p[4], p[5], p[6])] @@ <<>>

InitRun ==
    /\ windows \in BOOLEAN
    /\ response = <<>>
    /\ pc = "run"
    /\ executable_commands = <<>>
    /\ current_command_index = 0
    /\ session_command_history = <<>>
    /\ call = NoCall
    /\ result = NoResult
    /\ memory = <<>>
    /\ memory_file = <<>>
    /\ log_file = <<>>
    /\ launched = <<>>
    /\ consulted = <<>>
    /\ analysis = NoAnalysis
    /\ inserts = 0
    /\ messages = {}
    /\ args = NoArgs
    /\ returned = NotReturned

\* one call of run_command: the result is returned (or the exception
\* escapes), the log records are written, the process is launched or not
RunCommand ==
    /\ pc = "run"
    /\ Len(log_file) < MaxLogLen
    /\ \E command \in RunCommands, shell \in BOOLEAN, require_confirmation \in BOOLEAN,
          answer \in BOOLEAN, outcome \in LaunchOutcomes :
         \E res \in {RunResult[<<command, shell, require_confirmation, answer, outcome,
                                 windows>>]} :
            /\ call' = CallRecord(command, shell, require_confirmation, answer, outcome, res)
            /\ result' = res
            /\ log_file' = log_file \o res.logs
            /\ launched' = IF res.launched THEN Append(launched, res.run_arg)
                           ELSE launched
    /\ UNCHANGED <<args, returned, windows, response, pc, executable_commands, current_command_index,
                   session_command_history, memory, memory_file, consulted, analysis,
                   inserts, messages>>

NextRun == RunCommand

SpecRun == InitRun /\ [][NextRun]_vars

(***************************************************************************)
(* SafetyClassifier called on its own: is_dangerous_command on the command *)
(* texts that a few pieces make up                                         *)
(***************************************************************************)
\* Bound: the number of pieces a command text of the model is made of.
MaxPieces == 3

\* pieces of command texts: allowlisted first tokens, the repair flags of
\* chkdsk, denylisted fragments whole ("rm -rf", "format") and in halves
\* ("del" before " /f"), in both letter cases, a blank, an unknown word
ClassifierPieces ==
    { <<"c","h","k","d","s","k">>,
      <<"C","H","K","D","S","K"," ">>,
      <<" ","/","f">>,
      <<" ","/","R">>,
      <<" ","c",":">>,
      <<"r","m"," ","-","r","f">>,
      <<"R","m"," ","-","R","F"," ">>,
      <<"f","o","r","m","a","t">>,
      <<"s","f","c"," ">>,
      <<"d","e","l">>,
      <<" ">>,
      <<"x">> }

RECURSIVE Concat(_)
Concat(pieces) ==
    IF pieces = <<>> THEN <<>> ELSE Head(pieces) \o Concat(Tail(pieces))

\* the texts given as cmd_str: every sequence of at most MaxPieces pieces
ClassifierTexts ==
    { Concat(p) : p \in UNION { [1..k -> ClassifierPieces] : k \in 0..MaxPieces } }

InitDanger ==
    /\ windows = FALSE
    /\ response = <<>>
    /\ pc = "is_dangerous_command"
    /\ executable_commands = <<>>
    /\ current_command_index = 0
    /\ session_command_history = <<>>
    /\ call = NoCall
    /\ result = NoResult
    /\ memory = <<>>
    /\ memory_file = <<>>
    /\ log_file = <<>>
    /\ launched = <<>>
    /\ consulted = <<>>
    /\ analysis = NoAnalysis
    /\ inserts = 0
    /\ messages = {}
    /\ args \in { [function |-> "is_dangerous_command", cmd_str |-> t] :
                   t \in ClassifierTexts }
    /\ returned = NotReturned

\* one call of is_dangerous_command(cmd_str)
IsDangerousCommand ==
    /\ pc = "is_dangerous_command"
    /\ ~returned.done
    /\ \E verdict \in {is_dangerous_command(args.cmd_str)} :
          returned' = [done |-> TRUE, raised |-> verdict.raised,
                       value |-> verdict.value, step |-> verdict.step]
    /\ UNCHANGED <<args, windows, response, pc, executable_commands,
                   current_command_index, session_command_history, call, result,
                   memory, memory_file, log_file, launched, consulted, analysis,
                   inserts, messages>>

NextDanger == IsDangerousCommand

SpecDanger == InitDanger /\ [][NextDanger]_vars

(***************************************************************************)
(* ActionExtractor called on its own: extract_commands_from_llm_response   *)
(* on the response texts that a few parts make up                          *)
(***************************************************************************)
\* Bound: the number of parts a response text of the model is made of.
MaxParts == 3

\* parts of response texts: prose, command spans (a command, a foreign-OS
\* command, a blank one, the memory diagnostic), a URL span, and the two
\* brackets of a command span on their own, which wrap what stands between
ExtractorParts ==
    { <<"s","e","e"," ">>,
      <<"[","[","*","*","*"," ","s","f","c"," ","*","*","*","]","]">>,
      <<"[","[","*","*","*","s","u","d","o"," ","x","*","*","*","]","]">>,
      <<"[","[","*","*","*"," "," ","*","*","*","]","]">>,
      <<"[","[","u","r","l",":"," ","H","T","T","P",":","/","/","x","]","]">>,
      <<"[","[","*","*","*"," ">>,
      <<" ","*","*","*","]","]">>,
      <<"[","[","*","*","*"," ","M","d","s","c","h","e","d"," ","*","*","*","]","]">> }

\* the texts given as response: every sequence of at most MaxParts parts
ExtractorTexts ==
    { Concat(p) : p \in UNION { [1..k -> ExtractorParts] : k \in 0..MaxParts } }

InitExtract ==
    /\ windows \in BOOLEAN
    /\ response = <<>>
    /\ pc = "extract_commands_from_llm_response"
    /\ executable_commands = <<>>
    /\ current_command_index = 0
    /\ session_command_history = <<>>
    /\ call = NoCall
    /\ result = NoResult
    /\ memory = <<>>
    /\ memory_file = <<>>
    /\ log_file = <<>>
    /\ launched = <<>>
    /\ consulted = <<>>
    /\ analysis = NoAnalysis
    /\ inserts = 0
    /\ messages = {}
    /\ args \in { [function |-> "extract_commands_from_llm_response", response |-> t] :
                   t \in ExtractorTexts }
    /\ returned = NotReturned

\* one call of extract_commands_from_llm_response(response); the matches of
\* the two patterns (url_matches, command_matches) are kept beside the items
ExtractCommands ==
    /\ pc = "extract_commands_from_llm_response"
    /\ ~returned.done
    /\ returned' = [done |-> TRUE,
                    items |-> extract_commands_from_llm_response(args.response, windows),
                    url_matches |-> FindUrls(args.response, 1, <<>>),
                    command_matches |-> FindCommands(args.response, 1, <<>>)]
    /\ UNCHANGED <<args, windows, response, pc, executable_commands,
                   current_command_index, session_command_history, call, result,
                   memory, memory_file, log_file, launched, consulted, analysis,
                   inserts, messages>>

NextExtract == ExtractCommands

SpecExtract == InitExtract /\ [][NextExtract]_vars

(***************************************************************************)
(* PatternAnalyzer: find_time_clusters                                     *)
(***************************************************************************)
\* A key of the timestamps dict is a text of one day: the hour written
\* with two digits ("HH") or with one ("H"), or an hour with minutes
\* ("HH:MM") or another text ("text"), which the format "%Y-%m-%d %H" does
\* not accept.
BucketKey(hour, minute, form) == [hour |-> hour, minute |-> minute, form |-> form]

\* datetime.strptime(ts_str, "%Y-%m-%d %H"): the datetime in hours, or the
\* ValueError raised on unconverted data
strptime(ts_str) ==
    IF ts_str.form \in {"HH", "H"} THEN [ok |-> TRUE, dt |-> ts_str.hour]
    ELSE [ok |-> FALSE, dt |-> 0]

\* dt.strftime("%Y-%m-%d %H:%M"): the hour and the minute of the text
strftime(dt) == [hour |-> dt, minute |-> 0]

\* the loop over timestamps.items(): the pairs (dt_obj, count) of the keys
\* that parse, in the order of the dict (key is kept as a ghost)
RECURSIVE ParsedTimes(_)
ParsedTimes(timestamps) ==
    IF timestamps = <<>> THEN <<>>
    ELSE LET item == Head(timestamps)
             parsed == strptime(item.key)
         IN  (IF parsed.ok
              THEN <<[dt |-> parsed.dt, count |-> item.count, key |-> item.key]>>
              ELSE <<>>) \o ParsedTimes(Tail(timestamps))

\* sorted_times.sort(key=lambda x: x[0]): a stable sort, ascending
RECURSIVE SortByTime(_)
SortByTime(times) ==
    IF times = <<>> THEN <<>>
    ELSE LET x == Head(times)
             rest == SortByTime(Tail(times))
         IN  SelectSeq(rest, LAMBDA y : y.dt < x.dt) \o <<x>>
                 \o SelectSeq(rest, LAMBDA y : y.dt >= x.dt)

\* the dict appended to clusters; members (the keys summed into the
\* cluster) is a ghost
EmittedCluster(current_cluster) ==
    [start |-> strftime(current_cluster.start_dt),
     end |-> strftime(current_cluster.end_dt),
     count |-> current_cluster.count,
     members |-> current_cluster.members]

NoCluster == [none |-> TRUE, start_dt |-> 0, end_dt |-> 0, count |-> 0, members |-> <<>>]

\* Faulty variant of NewCluster: a cluster starts with count 0, the count
\* of its first bucket is lost
NewCluster_loses_first_count(t) ==
    [none |-> FALSE, start_dt |-> t.dt, end_dt |-> t.dt, count |-> 0,
     members |-> <<t.key>>]

NewCluster(t) ==
    [none |-> FALSE, start_dt |-> t.dt, end_dt |-> t.dt, count |-> t.count,
     members |-> <<t.key>>]

\* Faulty variant of CloseCluster: every closed cluster is emitted
CloseCluster_any_size(current_cluster, min_cluster_size, clusters) ==
    Append(clusters, EmittedCluster(current_cluster))

\* the cluster is appended when it is large enough (lines 788 and 798)
CloseCluster(current_cluster, min_cluster_size, clusters) ==
    IF current_cluster.count >= min_cluster_size
    THEN Append(clusters, EmittedCluster(current_cluster))
    ELSE clusters

\* the scan of sorted_times from position i, and the last cluster
RECURSIVE ScanTimes(_, _, _, _, _, _)
ScanTimes(sorted_times, i, current_cluster, clusters, min_cluster_size, max_gap_hours) ==
    IF i > Len(sorted_times)
    THEN IF ~current_cluster.none
         THEN CloseCluster(current_cluster, min_cluster_size, clusters)
         ELSE clusters
    ELSE LET t == sorted_times[i] IN
         IF current_cluster.none
         THEN ScanTimes(sorted_times, i + 1, NewCluster(t), clusters,
                        min_cluster_size, max_gap_hours)
         ELSE IF t.dt - current_cluster.end_dt <= max_gap_hours
         THEN ScanTimes(sorted_times, i + 1,
                        [current_cluster EXCEPT !.end_dt = t.dt,
                                                !.count = @ + t.count,
                                                !.members = Append(@, t.key)],
                        clusters, min_cluster_size, max_gap_hours)
         ELSE ScanTimes(sorted_times, i + 1, NewCluster(t),
                        CloseCluster(current_cluster, min_cluster_size, clusters),
                        min_cluster_size, max_gap_hours)

\* sorted(clusters, key=lambda x: x["count"], reverse=True): stable,
\* descending
RECURSIVE SortByCount(_)
SortByCount(clusters) ==
    IF clusters = <<>> THEN <<>>
    ELSE LET x == Head(clusters)
             rest == SortByCount(Tail(clusters))
         IN  SelectSeq(rest, LAMBDA y : y.count > x.count) \o <<x>>
                 \o SelectSeq(rest, LAMBDA y : y.count <= x.count)

find_time_clusters(timestamps, min_cluster_size, max_gap_hours) ==
    LET sorted_times == SortByTime(ParsedTimes(timestamps))
    IN  IF timestamps = <<>> \/ sorted_times = <<>> THEN <<>>
        ELSE SortByCount(ScanTimes(sorted_times, 1, NoCluster, <<>>,
                                   min_cluster_size, max_gap_hours))

(***************************************************************************)
(* PatternAnalyzer: analyze_logs_for_patterns                              *)
(***************************************************************************)
crash_keywords ==
    { <<"s","t","o","p","p","e","d"," ","w","o","r","k","i","n","g">>,
      <<"c","r","a","s","h","e","d">>,
      <<"n","o","t"," ","r","e","s","p","o","n","d","i","n","g">>,
      <<"f","a","u","l","t","i","n","g"," ","a","p","p","l","i","c","a","t","i","o","n">>,
      <<"h","a","n","g">>,
      <<"f","r","e","e","z","e">> }

service_keywords ==
    { <<"s","e","r","v","i","c","e">>,
      <<"f","a","i","l","e","d"," ","t","o"," ","s","t","a","r","t">>,
      <<"s","t","o","p","p","e","d"," ","u","n","e","x","p","e","c","t","e","d","l","y">>,
      <<"t","e","r","m","i","n","a","t","e","d"," ","w","i","t","h"," ","e","r","r","o","r">> }

driver_keywords ==
    { <<"d","r","i","v","e","r">>,
      <<"d","e","v","i","c","e">>,
      <<"\\","d","r","i","v","e","r","\\">>,
      <<"n","v","l","d","d","m","k","m">>,
      <<"a","m","d","k","m","d","a","g">>,
      <<"i","a","S","t","o","r">>,
      <<"r","t","x">> }

permission_keywords ==
    { <<"p","e","r","m","i","s","s","i","o","n">>,
      <<"a","c","c","e","s","s"," ","d","e","n","i","e","d">>,
      <<" ","E","P","E","R","M"," ">>,
      <<" ","E","A","C","C","E","S"," ">> }

disk_keywords ==
    { <<"d","i","s","k">>,
      <<"v","o","l","u","m","e">>,
      <<"n","t","f","s">>,
      <<"e","x","t","4">>,
      <<" ","b","t","r","f","s"," ">>,
      <<"h","a","r","d","d","i","s","k">>,
      <<"e","r","r","o","r"," ","o","n"," ","d","e","v","i","c","e">>,
      <<"i","/","o"," ","e","r","r","o","r">>,
      <<"b","a","d"," ","s","e","c","t","o","r">> }

known_problematic_apps ==
    { <<"C","a","p","C","u","t">>,
      <<"C","C","l","e","a","n","e","r">>,
      <<"O","n","e","D","r","i","v","e">>,
      <<"T","e","a","m","s">>,
      <<"D","i","s","c","o","r","d">>,
      <<"C","h","r","o","m","e">>,
      <<"F","i","r","e","f","o","x">>,
      <<"E","d","g","e">>,
      <<"S","k","y","p","e">>,
      <<"Z","o","o","m">>,
      <<"V","a","l","o","r","a","n","t">>,
      <<"R","i","o","t">> }

T_unknown == <<"u","n","k","n","o","w","n">>

\* log.get(name, default): a field of a log entry is absent (<<>>) or
\* holds one value
Get(field, default) == IF field = <<>> THEN default ELSE field[1]

\* any(keyword in msg for keyword in keywords)
MatchesAny(msg, keywords) == \E keyword \in keywords : Contains(msg, keyword)

\* lines 700-717: the key of error_timestamps for a TimeCreated text: an ISO
\* text gives its hour in two digits; another text gives what stands
\* before its first colon (an hour written with one digit in the model) or,
\* without a colon, the whole text; an empty text gives no key
HourTimestamp(timestamp) ==
    IF timestamp.kind = "empty" THEN <<>>
    ELSE IF timestamp.kind = "iso" THEN <<BucketKey(timestamp.hour, 0, "HH")>>
    ELSE IF timestamp.kind = "colon" THEN <<BucketKey(timestamp.hour, 0, "H")>>
    ELSE <<BucketKey(0, 0, "text")>>

\* what the loop body reads from one entry (lines 686-738)
ReadEntry(log) ==
    LET msg == Lower(Get(log.Message, <<>>))
        source == Lower(Get(log.ProviderName, T_unknown))
        source_key == IF source # T_unknown THEN source
                      ELSE Lower(Get(log.Source, T_unknown))
    IN  [source_key |-> source_key,
         level |-> log.Level,
         hour_timestamp |-> HourTimestamp(log.TimeCreated),
         crash |-> MatchesAny(msg, crash_keywords),
         service |-> MatchesAny(msg, service_keywords),
         driver |-> MatchesAny(msg, driver_keywords),
         permission |-> MatchesAny(msg, permission_keywords),
         disk |-> MatchesAny(msg, disk_keywords),
         apps |-> { app \in known_problematic_apps :
                      Contains(msg, Lower(app)) \/ Contains(source_key, Lower(app)) }]

\* the log entries of the model: a crash, a service failure, two entries
\* that match a crash and a service keyword, a driver and disk error, an
\* entry without any field, a permission error
LogEntries ==
    { [Message |-> <<<<"A","p","p"," ","c","r","a","s","h","e","d">>>>, ProviderName |-> <<<<"C","h","r","o","m","e">>>>, Source |-> <<>>,
       Level |-> <<"Error">>, TimeCreated |-> [kind |-> "iso", hour |-> 10, minute |-> 30]],
      [Message |-> <<<<"F","a","i","l","e","d"," ","t","o"," ","s","t","a","r","t">>>>, ProviderName |-> <<>>, Source |-> <<<<"s","c","m">>>>,
       Level |-> <<>>, TimeCreated |-> [kind |-> "colon", hour |-> 9, minute |-> 15]],
      [Message |-> <<<<"T","h","e"," ","S","e","r","v","i","c","e"," ","s","t","o","p","p","e","d"," ","w","o","r","k","i","n","g">>>>, ProviderName |-> <<<<"s","c","m">>>>, Source |-> <<>>,
       Level |-> <<"Error">>, TimeCreated |-> [kind |-> "iso", hour |-> 11, minute |-> 5]],
      [Message |-> <<<<"d","r","i","v","e","r",":"," ","d","i","s","k"," ","e","r","r","o","r">>>>, ProviderName |-> <<<<"u","n","k","n","o","w","n">>>>, Source |-> <<>>,
       Level |-> <<>>, TimeCreated |-> [kind |-> "text", hour |-> 0, minute |-> 0]],
      [Message |-> <<<<"o","k">>>>, ProviderName |-> <<>>, Source |-> <<>>,
       Level |-> <<>>, TimeCreated |-> [kind |-> "empty", hour |-> 0, minute |-> 0]],
      [Message |-> <<<<"s","e","r","v","i","c","e"," ","h","a","n","g">>>>, ProviderName |-> <<<<"T","e","a","m","s">>>>, Source |-> <<>>,
       Level |-> <<"Warning">>, TimeCreated |-> [kind |-> "iso", hour |-> 10, minute |-> 10]],
      [Message |-> <<<<"A","c","c","e","s","s"," ","d","e","n","i","e","d">>>>, ProviderName |-> <<<<"s","c","m">>>>, Source |-> <<>>,
       Level |-> <<"Error">>, TimeCreated |-> [kind |-> "iso", hour |-> 13, minute |-> 0]] }

\* ReadEntry on every entry of the model
EntryReading == [log \in LogEntries |-> ReadEntry(log)] @@ <<>>

NoPatterns ==
    [app_crashes |-> <<>>, service_failures |-> <<>>, driver_issues |-> <<>>,
     permission_errors |-> <<>>, disk_errors |-> <<>>, error_timestamps |-> <<>>,
     frequent_sources |-> <<>>, suspicious_apps |-> {}]

\* frequent_sources[source_key]["count"] += 1 and the level added (lines
\* 693-696); a dict keeps the order in which its keys were inserted
CountSource(frequent_sources, source_key, level) ==
    IF \E k \in 1..Len(frequent_sources) : frequent_sources[k].source = source_key
    THEN [k \in 1..Len(frequent_sources) |->
             IF frequent_sources[k].source = source_key
             THEN [frequent_sources[k] EXCEPT !.count = @ + 1,
                                              !.levels = @ \cup Range(level)]
             ELSE frequent_sources[k]]
    ELSE Append(frequent_sources,
                [source |-> source_key, count |-> 1, levels |-> Range(level)])

\* error_timestamps[hour_timestamp] += 1 (lines 715-717)
CountTimestamp(error_timestamps, hour_timestamp) ==
    IF hour_timestamp = <<>> THEN error_timestamps
    ELSE IF \E k \in 1..Len(error_timestamps) : error_timestamps[k].key = hour_timestamp[1]
    THEN [k \in 1..Len(error_timestamps) |->
             IF error_timestamps[k].key = hour_timestamp[1]
             THEN [error_timestamps[k] EXCEPT !.count = @ + 1]
             ELSE error_timestamps[k]]
    ELSE Append(error_timestamps, [key |-> hour_timestamp[1], count |-> 1])

\* Faulty variant of AddServiceFailure: the crash list is not consulted
AddServiceFailure_counts_twice(service_failures, app_crashes, log, reading) ==
    IF reading.service THEN Append(service_failures, log) ELSE service_failures

\* lines 722-725: a service failure, unless the entry is in app_crashes
AddServiceFailure(service_failures, app_crashes, log, reading) ==
    IF reading.service /\ log \notin Range(app_crashes)
    THEN Append(service_failures, log)
    ELSE service_failures

\* one pass of the loop over logs (lines 685-738)
ScanEntry(patterns, log) ==
    LET reading == EntryReading[log]
        app_crashes == IF reading.crash THEN Append(patterns.app_crashes, log)
                       ELSE patterns.app_crashes
    IN  [app_crashes |-> app_crashes,
         service_failures |->
             AddServiceFailure(patterns.service_failures, app_crashes, log, reading),
         driver_issues |-> IF reading.driver THEN Append(patterns.driver_issues, log)
                           ELSE patterns.driver_issues,
         permission_errors |-> IF reading.permission
                               THEN Append(patterns.permission_errors, log)
                               ELSE patterns.permission_errors,
         disk_errors |-> IF reading.disk THEN Append(patterns.disk_errors, log)
                         ELSE patterns.disk_errors,
         error_timestamps |->
             CountTimestamp(patterns.error_timestamps, reading.hour_timestamp),
         frequent_sources |->
             CountSource(patterns.frequent_sources, reading.source_key, reading.level),
         suspicious_apps |-> patterns.suspicious_apps \cup reading.apps]

RECURSIVE ScanLogs(_, _)
ScanLogs(patterns, logs) ==
    IF logs = <<>> THEN patterns
    ELSE ScanLogs(ScanEntry(patterns, Head(logs)), Tail(logs))

\* analyze_logs_for_patterns(logs): the scan, frequent_sources sorted by
\* count (stable, descending), and the clusters of error_timestamps with the
\* defaults of find_time_clusters
analyze_logs_for_patterns(logs) ==
    LET patterns == ScanLogs(NoPatterns, logs)
    IN  [app_crashes |-> patterns.app_crashes,
         service_failures |-> patterns.service_failures,
         driver_issues |-> patterns.driver_issues,
         permission_errors |-> patterns.permission_errors,
         disk_errors |-> patterns.disk_errors,
         error_timestamps |-> patterns.error_timestamps,
         frequent_sources |-> SortByCount(patterns.frequent_sources),
         suspicious_apps |-> patterns.suspicious_apps,
         error_clusters |-> find_time_clusters(patterns.error_timestamps, 3, 1)]

(***************************************************************************)
(* find_time_clusters called on its own, on small maps of buckets          *)
(***************************************************************************)
\* Bound: the number of keys of a timestamps dict of the model.
MaxBuckets == 3

\* the keys: 9 o'clock in both spellings, 10:00, 10:30, 11:00, 13:00
BucketKeys ==
    { BucketKey(9, 0, "H"), BucketKey(9, 0, "HH"), BucketKey(10, 0, "HH"),
      BucketKey(10, 30, "HH:MM"), BucketKey(11, 0, "HH"), BucketKey(13, 0, "HH") }

BucketCounts == {1, 2, 5}

ClusterSizes == {1, 3, 6}

GapHours == {-1, 1, 2}

\* the dicts: at most MaxBuckets distinct keys, in any insertion order
TimestampMaps ==
    { m \in UNION { [1..k -> [key : BucketKeys, count : BucketCounts]] : k \in 0..MaxBuckets } :
        \A i, j \in 1..Len(m) : i # j => m[i].key # m[j].key }

InitClusters ==
    /\ windows = FALSE
    /\ response = <<>>
    /\ pc = "find_time_clusters"
    /\ executable_commands = <<>>
    /\ current_command_index = 0
    /\ session_command_history = <<>>
    /\ call = NoCall
    /\ result = NoResult
    /\ memory = <<>>
    /\ memory_file = <<>>
    /\ log_file = <<>>
    /\ launched = <<>>
    /\ consulted = <<>>
    /\ analysis = NoAnalysis
    /\ inserts = 0
    /\ messages = {}
    /\ args \in { [function |-> "find_time_clusters", timestamps |-> m,
                   min_cluster_size |-> n, max_gap_hours |-> g] :
                   m \in TimestampMaps, n \in ClusterSizes, g \in GapHours }
    /\ returned = NotReturned

\* one call of find_time_clusters
FindTimeClusters ==
    /\ pc = "find_time_clusters"
    /\ ~returned.done
    /\ returned' = [done |-> TRUE,
                    clusters |-> find_time_clusters(args.timestamps,
                                     args.min_cluster_size, args.max_gap_hours)]
    /\ UNCHANGED <<args, windows, response, pc, executable_commands,
                   current_command_index, session_command_history, call, result,
                   memory, memory_file, log_file, launched, consulted, analysis,
                   inserts, messages>>

NextClusters == FindTimeClusters

SpecClusters == InitClusters /\ [][NextClusters]_vars

(***************************************************************************)
(* analyze_logs_for_patterns called on its own, on short lists of entries  *)
(***************************************************************************)
\* Bound: the number of entries of a list of logs of the model.
MaxLogs == 3

LogLists == UNION { [1..k -> LogEntries] : k \in 0..MaxLogs }

InitPatterns ==
    /\ windows = FALSE
    /\ response = <<>>
    /\ pc = "analyze_logs_for_patterns"
    /\ executable_commands = <<>>
    /\ current_command_index = 0
    /\ session_command_history = <<>>
    /\ call = NoCall
    /\ result = NoResult
    /\ memory = <<>>
    /\ memory_file = <<>>
    /\ log_file = <<>>
    /\ launched = <<>>
    /\ consulted = <<>>
    /\ analysis = NoAnalysis
    /\ inserts = 0
    /\ messages = {}
    /\ args \in { [function |-> "analyze_logs_for_patterns", logs |-> l] : l \in LogLists }
    /\ returned = NotReturned

\* one call of analyze_logs_for_patterns(logs)
AnalyzeLogs ==
    /\ pc = "analyze_logs_for_patterns"
    /\ ~returned.done
    /\ returned' = [done |-> TRUE, patterns |-> analyze_logs_for_patterns(args.logs)]
    /\ UNCHANGED <<args, windows, response, pc, executable_commands,
                   current_command_index, session_command_history, call, result,
                   memory, memory_file, log_file, launched, consulted, analysis,
                   inserts, messages>>

NextPatterns == AnalyzeLogs

SpecPatterns == InitPatterns /\ [][NextPatterns]_vars

(***************************************************************************)
(* add_to_memory_list called on its own, with any key and max_items, on    *)
(* memory documents whose lists are short, full or over-long               *)
(***************************************************************************)
\* Bound: the number of calls made one after the other.
MaxCalls == 2

\* Faulty variant of AddToMemoryList: the trim keeps the last max_items
AddToMemoryList_trims_newest(document, key, value, max_items) ==
    LET previous == IF document[key].kind = "list" THEN document[key].list ELSE <<>>
        inserted == <<value>> \o previous
    IN  [document EXCEPT ![key] =
            [kind |-> "list",
             list |-> IF Len(inserted) > max_items
                      THEN SubSeq(inserted, Len(inserted) - max_items + 1, Len(inserted))
                      ELSE inserted]]

\* add_to_memory_list(memory, key, value, max_items) on a document whose
\* entry for a key is absent, a list, or a value of another type (lines
\* 223-231); the document is then saved
AddToMemoryList(document, key, value, max_items) ==
    LET previous == IF document[key].kind = "list" THEN document[key].list ELSE <<>>
        inserted == <<value>> \o previous
    IN  [document EXCEPT ![key] =
            [kind |-> "list",
             list |-> IF Len(inserted) > max_items
                      THEN SubSeq(inserted, 1, max_items)
                      ELSE inserted]]

\* the documents a run starts with: per key no entry, an entry that is not
\* a list, or a list of 0, 9, 10, 19, 20 or 25 distinct older values
InitMemory ==
    /\ windows = FALSE
    /\ response = <<>>
    /\ pc = "add_to_memory_list"
    /\ executable_commands = <<>>
    /\ current_command_index = 0
    /\ session_command_history = <<>>
    /\ call = NoCall
    /\ result = NoResult
    /\ memory \in [ {"command_history", "health_report_summaries"} ->
                     {[kind |-> "absent", list |-> <<>>], [kind |-> "other", list |-> <<>>]}
                         \cup { [kind |-> "list", list |-> [k \in 1..n |-> 100 + k]] :
                                n \in {0, 9, 10, 19, 20, 25} } ]
    /\ memory_file = memory
    /\ log_file = <<>>
    /\ launched = <<>>
    /\ consulted = <<>>
    /\ analysis = NoAnalysis
    /\ inserts = 0
    /\ messages = {}
    /\ args = NoArgs
    /\ returned = NotReturned

\* one call memory = add_to_memory_list(memory, key, value, max_items), the
\* value being new at every call; args keeps the document passed
AddToMemoryListCall ==
    /\ pc = "add_to_memory_list"
    /\ inserts < MaxCalls
    /\ \E key \in DOMAIN memory, max_items \in {1, 10, MaxItems} :
          /\ args' = [function |-> "add_to_memory_list", memory |-> memory, key |-> key,
                      value |-> inserts + 1, max_items |-> max_items]
          /\ memory' = AddToMemoryList(memory, key, inserts + 1, max_items)
    /\ returned' = [done |-> TRUE, memory |-> memory']
    /\ memory_file' = memory'
    /\ inserts' = inserts + 1
    /\ UNCHANGED <<windows, response, pc, executable_commands, current_command_index,
                   session_command_history, call, result, log_file, launched, consulted,
                   analysis, messages>>

SpecMemory == InitMemory /\ [][AddToMemoryListCall]_vars

(***************************************************************************)
(* log_action called on its own, on every state of the log file            *)
(***************************************************************************)
\* log_action(action_type, details, success) on a log file that is
\* missing, empty, corrupt JSON, valid JSON that is not an array (an
\* object), or an array: what is loaded (lines 250-260), the append (line
\* 262), which raises AttributeError on a value that is not a list, and
\* the file written
log_action(file, log_entry) ==
    LET logs == IF file.kind \in {"array", "object"} THEN file ELSE [kind |-> "array", logs |-> <<>>]
    IN  IF logs.kind = "array"
        THEN [raised |-> FALSE,
              file |-> [kind |-> "array", logs |-> Append(logs.logs, log_entry)]]
        ELSE [raised |-> TRUE, file |-> file]

InitLog ==
    /\ windows = FALSE
    /\ response = <<>>
    /\ pc = "log_action"
    /\ executable_commands = <<>>
    /\ current_command_index = 0
    /\ session_command_history = <<>>
    /\ call = NoCall
    /\ result = NoResult
    /\ memory = <<>>
    /\ memory_file = <<>>
    /\ log_file = <<>>
    /\ launched = <<>>
    /\ consulted = <<>>
    /\ analysis = NoAnalysis
    /\ inserts = 0
    /\ messages = {}
    /\ \E action_type \in {"command_success", "command_cancelled", "command_skipped"},
          success \in BOOLEAN :
          args \in { [function |-> "log_action", file |-> f,
                      log_entry |-> LogRecord(action_type, T_sfc, success)] :
                     f \in [kind : {"missing", "empty", "corrupt", "object"}, logs : {<<>>}]
                         \cup { [kind |-> "array", logs |-> l] :
                                l \in UNION { [1..n -> { LogRecord(t, T_ping, s) :
                                                  t \in {"command_success", "command_failed",
                                                         "url_opened"},
                                                  s \in BOOLEAN }] :
                                              n \in 0..MaxLogLen } } }
    /\ returned = NotReturned

\* one call of log_action
LogAction ==
    /\ pc = "log_action"
    /\ ~returned.done
    /\ \E outcome \in {log_action(args.file, args.log_entry)} :
          returned' = [done |-> TRUE, raised |-> outcome.raised, file |-> outcome.file]
    /\ UNCHANGED <<args, windows, response, pc, executable_commands,
                   current_command_index, session_command_history, call, result,
                   memory, memory_file, log_file, launched, consulted, analysis,
                   inserts, messages>>

SpecLog == InitLog /\ [][LogAction]_vars

(***************************************************************************)
(* One program run: main's memory document, handed to interactive_mode,    *)
(* the loop's own copy, and the memory file                                *)
(***************************************************************************)
\* Bound: the number of records written to the memory file in a run.
MaxWrites == 3

\* interactive_mode is entered with the document main loaded and saved
\* (lines 2523-2550): memory is that copy, memory_file the file; the
\* command history holds no entry or 19 or 20 older records
InitSession ==
    /\ windows = FALSE
    /\ response = <<>>
    /\ pc = "interactive_mode"
    /\ executable_commands = <<>>
    /\ current_command_index = 0
    /\ session_command_history = <<>>
    /\ call = NoCall
    /\ result = NoResult
    /\ memory \in { [key \in {"command_history", "system_info"} |->
                        IF key = "command_history"
                        THEN [kind |-> "list", list |-> [k \in 1..n |-> 100 + k]]
                        ELSE [kind |-> "other", list |-> <<>>]] :
                    n \in {0, 19, 20} }
    /\ memory_file = memory
    /\ log_file = <<>>
    /\ launched = <<>>
    /\ consulted = <<>>
    /\ analysis = NoAnalysis
    /\ inserts = 0
    /\ messages = {}
    /\ args = NoArgs
    /\ returned = NotReturned

\* handle_llm_response called from handle_problem_description (line 1938)
\* or from interactive_mode (lines 2086, 2192) with one or two steps
\* executed: it loads its own copy of the document from the file (line
\* 1576) and adds and saves a record per executed step (lines 1693-1700);
\* the caller's copy is not passed in and not touched.
\* session_command_history keeps the records the loop has persisted.
HandleLlmResponse ==
    /\ pc = "interactive_mode"
    /\ \E steps \in 1..2, cmd_str \in {T_sfc, T_ping}, success \in BOOLEAN :
          LET record(i) == [timestamp |-> inserts + i, command |-> cmd_str,
                            success |-> success]
              loaded == memory_file
              first == AddToMemoryList(loaded, "command_history", record(1), MaxItems)
              second == AddToMemoryList(first, "command_history", record(2), MaxItems)
          IN  /\ inserts + steps <= MaxWrites
              /\ memory_file' = IF steps = 1 THEN first ELSE second
              /\ session_command_history' =
                     session_command_history \o [i \in 1..steps |-> record(i)]
              /\ inserts' = inserts + steps
    /\ UNCHANGED <<memory, windows, response, pc, executable_commands,
                   current_command_index, call, result, log_file, launched, consulted,
                   analysis, messages, args, returned>>

\* 'scan' in interactive_mode (lines 1978-1981): the new report is stored
\* in interactive_mode's copy, which is saved
Scan ==
    /\ pc = "interactive_mode"
    /\ inserts < MaxWrites
    /\ memory' = [memory EXCEPT !["system_info"] =
                      [kind |-> "other", list |-> <<inserts + 1>>]]
    /\ memory_file' = memory'
    /\ inserts' = inserts + 1
    /\ UNCHANGED <<windows, response, pc, executable_commands, current_command_index,
                   session_command_history, call, result, log_file, launched, consulted,
                   analysis, messages, args, returned>>

\* 'run: <command>' (lines 2098-2127) and 'execute <tool>' (lines
\* 2131-2165) with the command executed: its record is added to
\* interactive_mode's copy, which add_to_memory_list saves
InteractiveCommand ==
    /\ pc = "interactive_mode"
    /\ inserts < MaxWrites
    /\ \E typed \in {"run:", "execute"}, success \in BOOLEAN :
          memory' = AddToMemoryList(memory, "command_history",
                        [timestamp |-> inserts + 1,
                         command |-> IF typed = "run:" THEN T_ping ELSE T_start,
                         success |-> IF typed = "run:" THEN success ELSE TRUE],
                        MaxItems)
    /\ memory_file' = memory'
    /\ inserts' = inserts + 1
    /\ UNCHANGED <<windows, response, pc, executable_commands, current_command_index,
                   session_command_history, call, result, log_file, launched, consulted,
                   analysis, messages, args, returned>>

SpecSession == InitSession /\ [][HandleLlmResponse \/ Scan \/ InteractiveCommand]_vars

(***************************************************************************)
(* Properties of the orchestration loop (Spec)                             *)
(***************************************************************************)
\* C1: when the command text at the cursor is already in the session's
\* attempted-command history the loop stops at that step and nothing is
\* passed to run_command; and a step whose text stands at an earlier plan
\* position never enters per-step processing.
C1_CycleGuardStops ==
    /\ [][ (/\ pc = "loop"
            /\ current_command_index < Len(executable_commands)
            /\ \E k \in 1..Len(session_command_history) :
                  /\ session_command_history[k].entry = "text"
                  /\ session_command_history[k].command =
                         executable_commands[current_command_index + 1].value)
           => (/\ pc' = "done"
               /\ launched' = launched
               /\ call' = call
               /\ current_command_index' = current_command_index) ]_vars
    /\ [](pc \in {"precheck", "execute", "consult"}
            => \A k \in 1..current_command_index :
                   executable_commands[k].value #
                       executable_commands[current_command_index + 1].value)

\* C1 witness: the plan holds one text twice, the first occurrence was run,
\* and the loop stopped on the second one by the cycle guard
C1_Witness ==
    /\ pc = "done"
    /\ "cycle_stop" \in messages
    /\ Len(executable_commands) = 2
    /\ executable_commands[1].value = executable_commands[2].value
    /\ current_command_index = 1
    /\ Len(launched) = 1

\* C2: a confirmed SUGGEST_NEW at cursor i turns the plan into
\* plan[0..i] ++ [C] ++ plan[i+1..], C being the suggested item, and moves
\* the cursor to i+1, onto C.
C2_InsertAfterCursor ==
    [][ (pc = "consult" /\ analysis'.run_new = "yes")
        => LET i == current_command_index
               plan == executable_commands
               n == Len(executable_commands)
           IN  /\ Len(executable_commands') = n + 1
               /\ SubSeq(executable_commands', 1, i + 1) = SubSeq(plan, 1, i + 1)
               /\ SubSeq(executable_commands', i + 3, n + 1) = SubSeq(plan, i + 2, n)
               /\ \/ Contains(analysis'.text, CmdSpan(executable_commands'[i + 2].value))
                  \/ Contains(analysis'.text, UrlSpan(executable_commands'[i + 2].value))
               /\ current_command_index' = i + 1 ]_vars

\* C2 witness: the plan [format c:, dir | more] at cursor 0 has become
\* [format c:, ping x, dir | more] with the cursor on ping x
C2_Witness ==
    /\ pc = "loop"
    /\ inserts = 1
    /\ analysis.run_new = "yes"
    /\ current_command_index = 1
    /\ Len(executable_commands) = 3
    /\ executable_commands[1].value = T_format
    /\ executable_commands[2].value = T_ping
    /\ executable_commands[3].value = T_pipe

\* C3: every entry of the session plan is of kind Command, in every
\* reachable state, and no step of another kind is passed to run_command.
C3_PlanHoldsOnlyCommands ==
    /\ \A k \in 1..Len(executable_commands) : executable_commands[k].type = "command"
    /\ pc \in {"precheck", "execute"}
          => executable_commands[current_command_index + 1].type = "command"

\* C4: when the last plan step was executed and succeeded, the loop ends
\* Completed: it has not stopped by the cycle guard, it does not report
\* that it stopped before completing the plan, and that step was not
\* followed by a consultation.
C4_FinalSuccessCompletes ==
    (pc = "done" /\ "final_success" \in messages)
        => /\ "cycle_stop" \notin messages
           /\ "stopped_early" \notin messages
           /\ (consulted = <<>>
                  \/ consulted[Len(consulted)] # Len(executable_commands) - 1)

\* C5: a step passed to run_command is followed by a consultation unless
\* the operator declined its confirmation or it was executed successfully
\* as the final planned step.
C5_ConsultedAfterEveryStep ==
    [][ pc = "execute"
        => \/ pc' = "consult"
           \/ call'.answer = "no"
           \/ /\ result'.executed
              /\ result'.success
              /\ current_command_index = Len(executable_commands) - 1 ]_vars

\* C6: when the operator declines the confirmation of a step the loop stops
\* there: nothing is launched, nobody is consulted, the cursor stays, and
\* once stopped the loop launches and calls nothing more.
C6_DeclineStopsLoop ==
    [][ /\ (pc = "execute" /\ call'.answer = "no")
           => (/\ pc' = "done"
               /\ launched' = launched
               /\ consulted' = consulted
               /\ current_command_index' = current_command_index)
        /\ pc = "done"
           => (/\ pc' = "done"
               /\ launched' = launched
               /\ call' = call
               /\ consulted' = consulted) ]_vars

\* C6 witness: the first of two steps was declined and the loop is stopped
\* with nothing launched and nobody consulted
C6_Witness ==
    /\ pc = "done"
    /\ call.made
    /\ call.answer = "no"
    /\ "not_executed_stop" \in messages
    /\ Len(executable_commands) = 2
    /\ current_command_index = 0
    /\ launched = <<>>
    /\ consulted = <<>>

\* the verdict token an analysis text begins with, letter case and
\* surrounding blanks aside, and whether an item can be extracted from it
C7_Reading ==
    [p \in BOOLEAN \X AnalysisTexts |->
        LET text == Strip(Lower(p[2])) IN
        [proceeds |-> StartsWith(text, <<"p","r","o","c","e","e","d">>),
         suggests |-> StartsWith(text, <<"s","u","g","g","e","s","t","_","n","e","w">>),
         extractable |-> extract_commands_from_llm_response(p[2], p[1]) # <<>>]] @@ <<>>

\* C7: after a consultation the loop goes on exactly when the response
\* begins with PROCEED, or begins with SUGGEST_NEW, holds an extractable
\* item and the operator confirms; any other response, a declined
\* suggestion and an absent or empty response stop the loop and leave the
\* plan and the cursor as they were.
C7_ContinueOnlyOnProceedOrSuggestion ==
    [][ pc = "consult"
        => LET reading == C7_Reading[<<windows, analysis'.text>>]
               proceeds == ~analysis'.none /\ reading.proceeds
               suggests == ~analysis'.none /\ reading.suggests
               extractable == reading.extractable
               continues == pc' = "loop"
           IN  /\ continues <=>
                     (proceeds \/ (suggests /\ extractable /\ analysis'.run_new = "yes"))
               /\ ~continues
                     => (/\ pc' = "done"
                         /\ executable_commands' = executable_commands
                         /\ current_command_index' = current_command_index) ]_vars

\* C7 witness: a SUGGEST_NEW response without any span stopped the loop at
\* the first of two steps
C7_Witness ==
    /\ pc = "done"
    /\ analysis.text = V_suggest
    /\ "llm_stop" \in messages
    /\ Len(executable_commands) = 2
    /\ current_command_index = 0
    /\ consulted = <<0>>

(***************************************************************************)
(* Properties of run_command (SpecRun)                                     *)
(***************************************************************************)
\* C8: the process is launched only after the confirmation gate has passed:
\* when require_confirmation is true or the command text is dangerous the
\* operator is asked and the launch needs a yes; so a dangerous command is
\* never launched without a yes, and executed = true implies
\* confirmed = true in every returned result.
C8_ConfirmationGate ==
    call.made =>
        LET valid == /\ call.shell <=> call.command.isStr
                     /\ call.shell \/ call.command.list # <<>>
                     /\ ~result.raised
            dangerous == valid /\ is_dangerous_command(result.command_str).value
            required == call.require_confirmation \/ dangerous
        IN  /\ (valid /\ required) => call.answer # "none"
            /\ (result.launched /\ required) => call.answer = "yes"
            /\ (result.launched /\ dangerous) => call.answer = "yes"
            /\ result.launched => valid
            /\ result.executed => result.confirmed

\* C8 witness: a dangerous command passed with require_confirmation = false
\* was asked about and launched on a yes
C8_Witness ==
    /\ call.made
    /\ call.command = StrCommand(T_format)
    /\ ~call.require_confirmation
    /\ call.answer = "yes"
    /\ result.launched
    /\ result.executed

\* C9: on a decline no process is launched, the result has executed,
\* success and confirmed all false, and the call writes exactly one log
\* record, of type command_cancelled.
C9_DeclineIsCancellation ==
    [][ call'.answer = "no"
        => /\ launched' = launched
           /\ ~result'.launched
           /\ ~result'.executed
           /\ ~result'.success
           /\ ~result'.confirmed
           /\ Len(log_file') = Len(log_file) + 1
           /\ SubSeq(log_file', 1, Len(log_file)) = log_file
           /\ log_file'[Len(log_file')].action_type = "command_cancelled" ]_vars

\* C9 witness: a declined call has written its cancellation record
C9_Witness ==
    /\ call.made
    /\ call.answer = "no"
    /\ Len(log_file) = 1
    /\ log_file[1].action_type = "command_cancelled"
    /\ launched = <<>>

\* C10: every returned result has executed = false => success = false, and
\* success = true exactly when the process ran and exited with 0; not-found
\* and generic errors give executed = false, a timeout gives
\* executed = true and success = false.
C10_ResultConsistency ==
    (call.made /\ ~result.raised) =>
        /\ ~result.executed => ~result.success
        /\ result.success <=> (call.outcome = "exit" /\ call.code = 0)
        /\ call.outcome \in {"FileNotFoundError", "Exception"} => ~result.executed
        /\ call.outcome = "TimeoutExpired" => (result.executed /\ ~result.success)
        /\ call.outcome = "exit" => result.executed

\* C10 witness: a confirmed call whose launch timed out
C10_Witness ==
    /\ call.made
    /\ call.outcome = "TimeoutExpired"
    /\ result.executed
    /\ ~result.success
    /\ result.confirmed

\* C11: run_command never raises past its caller: for every command input
\* (an empty or blank shell string, a command of the wrong type for the
\* mode, an empty argument list, a launch failure) the call returns a
\* result record with the failure captured as data.
C11_NeverRaises ==
    call.made => ~result.raised

(***************************************************************************)
(* Properties of is_dangerous_command (SpecDanger)                         *)
(***************************************************************************)
\* C12: is_dangerous_command returns true for every command text that
\* contains, letter case aside, a denylisted fragment as a substring,
\* whatever surrounds it and even when the first token is on the
\* allowlist of safe diagnostic commands.
C12_DenylistTakesPrecedence ==
    (returned.done /\ args.function = "is_dangerous_command") =>
        ((\E frag \in dangerous_commands : Contains(Lower(args.cmd_str), frag))
            => (~returned.raised /\ returned.value))

\* C12 witness: "sfc Rm -RF  c:", an allowlisted first token before a
\* denylisted fragment in capitals, was classified as dangerous
C12_Witness ==
    /\ returned.done
    /\ args.function = "is_dangerous_command"
    /\ args.cmd_str = Concat(<<<<"s","f","c"," ">>, <<"R","m"," ","-","R","F"," ">>, <<" ","c",":">>>>)
    /\ returned.value

\* C13: for a text whose first token is chkdsk and which holds no
\* denylisted fragment: with neither /f nor /r in the text the verdict is
\* false and comes from the allowlist; with /f or /r the allowlist is not
\* applied and the verdict is the one of the default classification (not
\* dangerous), given by the default return.
C13_ChkdskCarveOut ==
    (returned.done /\ args.function = "is_dangerous_command") =>
        LET cmd_lower == Lower(args.cmd_str)
            words == Split(cmd_lower)
            repairs == \/ Contains(cmd_lower, <<"/","f">>)
                       \/ Contains(cmd_lower, <<"/","r">>)
        IN  (/\ words # <<>>
             /\ words[1] = T_chkdsk
             /\ \A frag \in dangerous_commands : ~Contains(cmd_lower, frag))
            => /\ ~returned.raised
               /\ ~returned.value
               /\ returned.step = (IF repairs THEN "default" ELSE "allowlist")

\* C13 witness: "CHKDSK  c: /R" fell through to the default classification
C13_Witness ==
    /\ returned.done
    /\ args.function = "is_dangerous_command"
    /\ args.cmd_str = Concat(<<<<"C","H","K","D","S","K"," ">>, <<" ","c",":">>, <<" ","/","R">>>>)
    /\ returned.step = "default"
    /\ ~returned.value

(***************************************************************************)
(* Properties of extract_commands_from_llm_response (SpecExtract)          *)
(***************************************************************************)
\* the character positions of a match
C14_Range(m) == m.start .. (m.end - 1)

\* the command match m shares a character with some URL match
C14_Intersects(m, urls) ==
    \E k \in 1..Len(urls) : C14_Range(m) \cap C14_Range(urls[k]) # {}

\* C14: when every command span of the text is non-empty and overlaps no
\* URL span, the items that are not URL items are one per command span, in
\* the order of the spans; the whole list is in ascending order of source
\* offset; every value is non-empty; and each command span's item is of
\* kind command unless its first token is a foreign-OS-only command on
\* the current platform.
C14_OneItemPerSpan ==
    (returned.done /\ args.function = "extract_commands_from_llm_response") =>
        LET cmds == returned.command_matches
            items == returned.items
            from_commands == SelectSeq(items, LAMBDA it : it.type # "url")
        IN  (\A k \in 1..Len(cmds) :
                 /\ Strip(cmds[k].group) # <<>>
                 /\ ~C14_Intersects(cmds[k], returned.url_matches))
            => /\ Len(from_commands) = Len(cmds)
               /\ \A k \in 1..Len(cmds) :
                     /\ from_commands[k].original_match_position = cmds[k].start
                     /\ \/ from_commands[k].type = "command"
                        \/ windows /\ FirstWord(Strip(cmds[k].group)) \in foreign_commands
               /\ \A k \in 1..Len(items) : items[k].value # <<>>
               /\ \A j, k \in 1..Len(items) :
                     j < k => items[j].original_match_position
                                  < items[k].original_match_position

\* C14 witness: a command span, a URL span and a foreign-OS command span on
\* Windows gave three items in that order
C14_Witness ==
    /\ returned.done
    /\ args.function = "extract_commands_from_llm_response"
    /\ windows
    /\ Len(returned.command_matches) = 2
    /\ Len(returned.url_matches) = 1
    /\ Len(returned.items) = 3
    /\ returned.items[1].type = "command"
    /\ returned.items[2].type = "url"
    /\ returned.items[3].type = "invalid_command"

\* C15: every URL span gives exactly one item, of kind url, and a command
\* span whose range intersects the range of a URL span gives no item; so
\* no URL span is extracted both as a URL and as a command.
C15_UrlExtractedOnce ==
    (returned.done /\ args.function = "extract_commands_from_llm_response") =>
        LET urls == returned.url_matches
            cmds == returned.command_matches
            items == returned.items
            at(pos) == { k \in 1..Len(items) : items[k].original_match_position = pos }
        IN  /\ \A u \in 1..Len(urls) :
                  /\ Cardinality(at(urls[u].start)) = 1
                  /\ \A k \in at(urls[u].start) : items[k].type = "url"
            /\ \A c \in 1..Len(cmds) :
                  C14_Intersects(cmds[c], urls) => at(cmds[c].start) = {}
            /\ Cardinality({ k \in 1..Len(items) : items[k].type = "url" }) = Len(urls)

\* C15 witness: a URL span wrapped in the brackets of a command span gave
\* the URL item alone
C15_Witness ==
    /\ returned.done
    /\ args.function = "extract_commands_from_llm_response"
    /\ Len(returned.command_matches) = 1
    /\ Len(returned.url_matches) = 1
    /\ C14_Intersects(returned.command_matches[1], returned.url_matches)
    /\ Len(returned.items) = 1
    /\ returned.items[1].type = "url"

\* C16: every command span that overlaps no URL span gives exactly one
\* item; a span whose inner text is empty after trimming gives an item of
\* kind error with a non-empty placeholder value; no item has an empty
\* value.
C16_EmptySpanBecomesError ==
    (returned.done /\ args.function = "extract_commands_from_llm_response") =>
        LET cmds == returned.command_matches
            items == returned.items
            at(pos) == { k \in 1..Len(items) : items[k].original_match_position = pos }
        IN  /\ \A c \in 1..Len(cmds) :
                  ~C14_Intersects(cmds[c], returned.url_matches)
                  => /\ Cardinality(at(cmds[c].start)) = 1
                     /\ Strip(cmds[c].group) = <<>>
                           => \A k \in at(cmds[c].start) : items[k].type = "error"
            /\ \A k \in 1..Len(items) : items[k].value # <<>>

(***************************************************************************)
(* Properties of find_time_clusters (SpecClusters)                         *)
(***************************************************************************)
\* the call of the example: {10:00 -> 1, 10:30 -> 2, 13:00 -> 5} with
\* min_cluster_size = 3 and max_gap_hours = 1
C17_Example ==
    /\ args.function = "find_time_clusters"
    /\ Len(args.timestamps) = 3
    /\ Range(args.timestamps) =
           { [key |-> BucketKey(10, 0, "HH"), count |-> 1],
             [key |-> BucketKey(10, 30, "HH:MM"), count |-> 2],
             [key |-> BucketKey(13, 0, "HH"), count |-> 5] }
    /\ args.min_cluster_size = 3
    /\ args.max_gap_hours = 1

\* C17: clustering {10:00 -> 1, 10:30 -> 2, 13:00 -> 5} with
\* max_gap_hours = 1 and min_cluster_size = 3 returns exactly one cluster,
\* from 10:00 to 10:30 with count 3, and the 13:00 bucket is in no
\* returned cluster.
C17_ExampleClusters ==
    (returned.done /\ C17_Example) =>
        /\ Len(returned.clusters) = 1
        /\ returned.clusters[1].start = [hour |-> 10, minute |-> 0]
        /\ returned.clusters[1].end = [hour |-> 10, minute |-> 30]
        /\ returned.clusters[1].count = 3
        /\ \A k \in 1..Len(returned.clusters) :
              BucketKey(13, 0, "HH") \notin Range(returned.clusters[k].members)

\* C18: every returned cluster has count >= min_cluster_size, any two
\* chronologically consecutive member buckets of a cluster are at most
\* max_gap_hours apart, and the list is in descending order of count.
C18_ClusterInvariants ==
    (returned.done /\ args.function = "find_time_clusters") =>
        LET clusters == returned.clusters IN
        /\ \A k \in 1..Len(clusters) :
              /\ clusters[k].count >= args.min_cluster_size
              /\ \A i \in 1..(Len(clusters[k].members) - 1) :
                    LET earlier == strptime(clusters[k].members[i]).dt
                        later == strptime(clusters[k].members[i + 1]).dt
                    IN  earlier <= later /\ later - earlier <= args.max_gap_hours
        /\ \A j, k \in 1..Len(clusters) : j < k => clusters[j].count >= clusters[k].count

\* C18 witness: {10 -> 1, 11 -> 2, 13 -> 5} with min_cluster_size = 3 and
\* max_gap_hours = 1 gave the cluster of 13:00 (count 5) before the
\* cluster from 10:00 to 11:00 (count 3)
C18_Witness ==
    /\ returned.done
    /\ args.function = "find_time_clusters"
    /\ args.min_cluster_size = 3
    /\ args.max_gap_hours = 1
    /\ Len(returned.clusters) = 2
    /\ returned.clusters[1].count = 5
    /\ returned.clusters[1].start = [hour |-> 13, minute |-> 0]
    /\ returned.clusters[2].count = 3
    /\ returned.clusters[2].members = <<BucketKey(10, 0, "HH"), BucketKey(11, 0, "HH")>>

(***************************************************************************)
(* Properties of the orchestration loop (Spec), continued                  *)
(***************************************************************************)
\* C19: a step whose result has executed = true puts a record of the
\* command (command, success, exit code) at the front of the command
\* history of the memory document, and the document is on disk when the
\* step hands over to the consultation or to the next step; a step that
\* was not executed, and every other part of the loop, leaves the saved
\* history as it was.
C19_WriteThrough ==
    [][ /\ pc = "execute"
           => IF result'.executed
              THEN /\ Len(memory_file') =
                          (IF Len(memory_file) < MaxItems THEN Len(memory_file) + 1
                           ELSE MaxItems)
                   /\ memory_file'[1] =
                          [command |-> executable_commands[current_command_index + 1].value,
                           success |-> result'.success,
                           return_code |-> result'.return_code]
                   /\ \A k \in 2..Len(memory_file') : memory_file'[k] = memory_file[k - 1]
                   /\ memory' = memory_file'
                   /\ pc' \in {"consult", "loop"}
                   /\ consulted' = consulted
                   /\ current_command_index' = current_command_index
              ELSE memory_file' = memory_file
        /\ pc # "execute" => memory_file' = memory_file
        /\ consulted' # consulted
           => /\ memory_file # <<>>
              /\ memory_file[1].command =
                     executable_commands[current_command_index + 1].value ]_vars

\* C19 witness: the second executed step of a run is about to be consulted
\* on; its record stands before the record of the first in the saved
\* document
C19_Witness ==
    /\ pc = "consult"
    /\ result.executed
    /\ Len(memory_file) = 2
    /\ memory_file = memory
    /\ memory_file[1].command = executable_commands[current_command_index + 1].value
    /\ memory_file[2].command # memory_file[1].command
    /\ Len(consulted) = 1

\* C20: every run of the loop that enters a step emits the session summary
\* when it ends, on whichever path (plan exhausted, STOP verdict, failed
\* consultation, declined confirmation, declined suggestion, cycle guard);
\* and every step passed to run_command has added to the session history
\* one outcome record (command, confirmed, executed, success, error, exit
\* code), executed or not, which stays there until the end.
C20_SummaryOnEveryPath ==
    [][ /\ (pc # "start" /\ pc' = "done") => "summary" \in messages'
        /\ pc = "execute"
           => /\ call'.made
              /\ session_command_history' =
                     Append(session_command_history,
                            [entry |-> "outcome",
                             command |-> executable_commands[current_command_index + 1].value,
                             confirmed |-> result'.confirmed,
                             executed |-> result'.executed,
                             success |-> result'.success,
                             error |-> result'.error,
                             return_code |-> result'.return_code])
        /\ pc # "execute"
           => /\ Len(session_command_history') >= Len(session_command_history)
              /\ SubSeq(session_command_history', 1, Len(session_command_history))
                     = session_command_history
              /\ \A k \in (Len(session_command_history) + 1)..Len(session_command_history') :
                    session_command_history'[k].entry = "text" ]_vars

\* C20 witness: a run ended by a declined confirmation at its first step has
\* printed the summary, and the history holds the outcome record of the
\* step that was not executed
C20_Witness ==
    /\ pc = "done"
    /\ "summary" \in messages
    /\ "not_executed_stop" \in messages
    /\ Len(session_command_history) = 2
    /\ session_command_history[2].entry = "outcome"
    /\ ~session_command_history[2].executed
    /\ ~session_command_history[2].confirmed

\* C21: when the existence probe of a step fails and the operator declines
\* to attempt the command anyway (the call logs command_skipped), the step
\* is skipped and the loop not stopped: the cursor advances by exactly
\* one, the step is not passed to run_command, no consultation takes place
\* for it, and the loop then takes up the next plan step if there is one
\* (unless the cycle guard finds its text).
C21_DeclinedProbeSkipsStep ==
    [][ /\ (/\ pc = "precheck"
            /\ Len(log_file') > Len(log_file)
            /\ log_file'[Len(log_file')].action_type = "command_skipped")
           => /\ pc' = "loop"
              /\ current_command_index' = current_command_index + 1
              /\ call' = call
              /\ result' = result
              /\ session_command_history' = session_command_history
              /\ consulted' = consulted
              /\ executable_commands' = executable_commands
              /\ messages' = messages
              /\ \A k \in (Len(launched) + 1)..Len(launched') :
                    launched'[k] # executable_commands[current_command_index + 1].value
        /\ (/\ pc = "loop"
            /\ log_file # <<>>
            /\ log_file[Len(log_file)].action_type = "command_skipped"
            /\ current_command_index < Len(executable_commands))
           => \/ /\ pc' = "precheck"
                 /\ current_command_index' = current_command_index
              \/ /\ pc' = "done"
                 /\ "cycle_stop" \in messages' ]_vars

\* C21 witness: the first step of a plan of two was skipped after its probe
\* failed, nothing was passed to run_command or consulted on, and the
\* second step has been taken up
C21_Witness ==
    /\ pc = "precheck"
    /\ current_command_index = 1
    /\ Len(executable_commands) = 2
    /\ log_file # <<>>
    /\ log_file[Len(log_file)].action_type = "command_skipped"
    /\ ~call.made
    /\ consulted = <<>>
    /\ Len(session_command_history) = 2

(***************************************************************************)
(* Properties of analyze_logs_for_patterns (SpecPatterns)                  *)
(***************************************************************************)
\* C22: in the report no entry stands both in the application-crash list
\* and in the service-failure list: an entry whose message matches a crash
\* keyword is never added to the service failures, even when it matches a
\* service keyword too.
C22_NoDoubleCounting ==
    (returned.done /\ args.function = "analyze_logs_for_patterns") =>
        /\ Range(returned.patterns.app_crashes)
               \cap Range(returned.patterns.service_failures) = {}
        /\ \A k \in 1..Len(args.logs) :
              MatchesAny(Lower(Get(args.logs[k].Message, <<>>)), crash_keywords)
                  => /\ args.logs[k] \in Range(returned.patterns.app_crashes)
                     /\ args.logs[k] \notin Range(returned.patterns.service_failures)

\* C22 witness: of three entries, one a service failure and the two others
\* matching a crash and a service keyword each, the report has the two in
\* the crash list and the one in the service-failure list
C22_Witness ==
    /\ returned.done
    /\ args.function = "analyze_logs_for_patterns"
    /\ Len(args.logs) = 3
    /\ Len(returned.patterns.app_crashes) = 2
    /\ Len(returned.patterns.service_failures) = 1
    /\ \A k \in 1..Len(args.logs) :
          MatchesAny(Lower(Get(args.logs[k].Message, <<>>)), service_keywords)

(***************************************************************************)
(* Properties of add_to_memory_list (SpecMemory)                           *)
(***************************************************************************)
\* C23: after a call add_to_memory_list(memory, key, value, max_items),
\* memory[key] is a list whose first element is value, whose length is at
\* most max_items, and whose other elements are the previous elements in
\* their previous order, only the last ones being removed; after any
\* sequence of calls.
C23_NewestFirstBounded ==
    (returned.done /\ args.function = "add_to_memory_list") =>
        LET now == returned.memory[args.key]
            before == args.memory[args.key]
            previous == IF before.kind = "list" THEN before.list ELSE <<>>
        IN  /\ now.kind = "list"
            /\ now.list # <<>>
            /\ now.list[1] = args.value
            /\ Len(now.list) <= args.max_items
            /\ Len(now.list) - 1 <= Len(previous)
            /\ \A k \in 2..Len(now.list) : now.list[k] = previous[k - 1]

\* C23 witness: a second call on a full list of 20 with max_items = 20 has
\* put its value first and dropped the oldest element
C23_Witness ==
    /\ returned.done
    /\ args.function = "add_to_memory_list"
    /\ args.value = 2
    /\ args.max_items = MaxItems
    /\ args.memory[args.key].kind = "list"
    /\ Len(args.memory[args.key].list) = MaxItems
    /\ Len(returned.memory[args.key].list) = MaxItems
    /\ returned.memory[args.key].list[2] = 1

(***************************************************************************)
(* Properties of log_action (SpecLog)                                      *)
(***************************************************************************)
\* C24: log_action is never fatal and append-only: whatever the state of
\* the log file (missing, empty, corrupt JSON, valid JSON that is not an
\* array, a valid array) the call returns without raising, and when the
\* file held a valid array the new content is that array with exactly one
\* record appended at the end.
C24_NeverFatalAppendOnly ==
    (returned.done /\ args.function = "log_action") =>
        /\ ~returned.raised
        /\ args.file.kind = "array"
              => returned.file = [kind |-> "array",
                                  logs |-> Append(args.file.logs, args.log_entry)]

(***************************************************************************)
(* Properties of the orchestration loop (Spec): repetition and termination *)
(***************************************************************************)
\* C25: within one run of the loop no literal command text is passed to
\* run_command more than once (the 'where' probe aside): the step about
\* to be passed has no outcome record yet, and the outcome records of the
\* run carry pairwise distinct texts.
C25_NoTextRunTwice ==
    /\ [][ pc = "execute"
           => \A k \in 1..Len(session_command_history) :
                  session_command_history[k].entry = "outcome"
                      => session_command_history[k].command #
                             executable_commands[current_command_index + 1].value ]_vars
    /\ [](\A j, k \in 1..Len(session_command_history) :
              (/\ j < k
               /\ session_command_history[j].entry = "outcome"
               /\ session_command_history[k].entry = "outcome")
                  => session_command_history[j].command #
                         session_command_history[k].command)

\* C25 witness: two steps were passed to run_command, a third plan
\* position held a text already attempted, and the loop stopped there
C25_Witness ==
    /\ pc = "done"
    /\ "cycle_stop" \in messages
    /\ Cardinality({k \in 1..Len(session_command_history) :
                       session_command_history[k].entry = "outcome"}) = 2
    /\ current_command_index = 2
    /\ Len(executable_commands) = 3

C28_LoopRecordsStayPersisted ==
    \A k \in 1..Len(session_command_history) :
        \/ /\ memory_file["command_history"].kind = "list"
           /\ \E j \in 1..Len(memory_file["command_history"].list) :
                  memory_file["command_history"].list[j] = session_command_history[k]
        \/ inserts - session_command_history[k].timestamp >= MaxItems

(***************************************************************************)
(* Properties of is_dangerous_command (SpecDanger), continued              *)
(***************************************************************************)
\* C29: for every command text with at least one token the classifier
\* returns, and its verdict is true exactly when the lowered text contains
\* a denylisted fragment: the allowlist and the chkdsk carve-out never
\* change the verdict.
C29_VerdictIsDenylistHit ==
    (/\ returned.done
     /\ args.function = "is_dangerous_command"
     /\ Split(Lower(args.cmd_str)) # <<>>)
        => /\ ~returned.raised
           /\ returned.value
                 <=> \E frag \in dangerous_commands : Contains(Lower(args.cmd_str), frag)

\* C29 witness: "chkdsk /f", which the allowlist does not cover, was
\* classified by the default return as not dangerous
C29_Witness ==
    /\ returned.done
    /\ args.function = "is_dangerous_command"
    /\ args.cmd_str = Concat(<<<<"c","h","k","d","s","k">>, <<" ","/","f">>>>)
    /\ returned.step = "default"
    /\ ~returned.raised
    /\ ~returned.value

(***************************************************************************)
(* Properties of find_time_clusters (SpecClusters), continued              *)
(***************************************************************************)
\* the sum of the counts of a sequence of buckets or of clusters
RECURSIVE C30_Total(_)
C30_Total(counted) ==
    IF counted = <<>> THEN 0 ELSE Head(counted).count + C30_Total(Tail(counted))

\* the returned clusters cover pairwise disjoint time ranges; the count of
\* each is the sum of the counts of exactly the parseable buckets lying
\* between its start and its end; no bucket is counted in two clusters and
\* none that does not parse in any; the counts of the clusters add up to at
\* most the counts of the parseable buckets
C30_DisjointExact ==
    LET clusters == returned.clusters
        parseable == SelectSeq(args.timestamps, LAMBDA b : strptime(b.key).ok)
        within(c) == SelectSeq(parseable,
                         LAMBDA b : /\ c.start.hour <= strptime(b.key).dt
                                    /\ strptime(b.key).dt <= c.end.hour)
    IN  /\ \A j, k \in 1..Len(clusters) :
              j # k => \/ clusters[j].end.hour < clusters[k].start.hour
                       \/ clusters[k].end.hour < clusters[j].start.hour
        /\ \A k \in 1..Len(clusters) :
              /\ clusters[k].count = C30_Total(within(clusters[k]))
              /\ Range(clusters[k].members) =
                     {within(clusters[k])[i].key : i \in 1..Len(within(clusters[k]))}
              /\ \A key \in Range(clusters[k].members) : strptime(key).ok
        /\ \A j, k \in 1..Len(clusters) :
              j # k => Range(clusters[j].members) \cap Range(clusters[k].members) = {}
        /\ C30_Total(clusters) <= C30_Total(parseable)

====
